---- MODULE Spec2Model ----
(***************************************************************************)
(* Model of the media pipeline API: the log frame demultiplexer of the     *)
(* log stream route, the status stream route with its change detection,    *)
(* the log stream route's resources, and the link store (FileService)      *)
(* with its temp-write-then-rename mutation.                                *)
(*                                                                         *)
(* Each subsystem has its own specification (SpecFramer, SpecLinks, ...);  *)
(* a specification leaves the variables of the other subsystems at their   *)
(* initial values.                                                          *)
(***************************************************************************)
EXTENDS Integers, Sequences, FiniteSets, TLC

VARIABLES
  \* ---- log framer (routes/logs: processLogData) ----
  stream,      \* the whole byte sequence the engine will deliver
  fed,         \* how many bytes of stream the 'data' events have delivered
  buffer,      \* the closure variable `buffer` (unconsumed bytes)
  emitted,     \* the LogEntry values handed to connection.sendData, in order
  \* ---- link store (lib/files: FileService) ----
  files,       \* the directory: path -> [exists, data] for linksFilePath and tempFile
  fdAt,        \* per call: where the file its open write handle refers to is linked
  proc,        \* per call: position in the method and its local variables
  prev,        \* the last call that returned (its operation and result)
  mut,         \* per call: artifact when it started and the content it decided to write
  \* ---- status stream (routes/status: GET /stream) ----
  engine,      \* what the container engine reports for the three containers
  changes,     \* how many times the engine state has changed
  lastStatus,  \* the router's `lastStatus`
  sconn,       \* per status connection: handler position, SSEConnection, timers
  \* ---- log stream (routes/logs: GET /stream) ----
  lconn,       \* per log connection: handler position, SSEConnection, timer, logStream
  \* ---- status snapshot (routes/status: GET /) ----
  probe,       \* what the four inspect calls of one getCurrentStatus() meet
  answer,      \* the snapshot sent with res.json
  \* ---- push connections (lib/sse: SSEConnection, SSEManager) ----
  pconn,       \* per connection: SSEConnection fields, transport, what was written
  registry,    \* SSEManager.connections: the registered ids in insertion order
  fan,         \* what the broadcast of the last step met (NoFan after any other step)
  \* ---- pipeline control (routes/pipeline, lib/docker) ----
  running,     \* per container name: the engine's State.Running
  calls,       \* the start/stop calls the API has issued to the engine
  reply,       \* the last pipeline request answered and what it was answered
  inflight,    \* per request slot: the request awaiting the engine's inspect answer
  \* ---- link routes (routes/links: request validation) ----
  linkReply,   \* the last link request that validation rejected, and the answer
  \* ---- authentication (lib/auth, server: route mounting) ----
  apiToken,    \* config.apiToken
  handled,     \* the routers whose handlers have run
  authReply    \* the last /api request and how far it got

framerVars == <<stream, fed, buffer, emitted>>
linkVars == <<files, fdAt, proc, prev, mut>>
statusVars == <<engine, changes, lastStatus, sconn>>
logVars == <<lconn>>
snapshotVars == <<probe, answer>>
pushVars == <<pconn, registry, fan>>
pipelineVars == <<running, calls, reply, inflight>>
routeVars == <<linkReply>>
authVars == <<apiToken, handled, authReply>>

vars == <<framerVars, linkVars, statusVars, logVars, snapshotVars, pushVars, pipelineVars, routeVars, authVars>>

notFramer == <<linkVars, statusVars, logVars, snapshotVars, pushVars, pipelineVars, routeVars, authVars>>
notLinks == <<framerVars, statusVars, logVars, snapshotVars, pushVars, pipelineVars, routeVars, authVars>>
notStatus == <<framerVars, linkVars, logVars, snapshotVars, pushVars, pipelineVars, routeVars, authVars>>
notLogs == <<framerVars, linkVars, statusVars, snapshotVars, pushVars, pipelineVars, routeVars, authVars>>
notSnapshot == <<framerVars, linkVars, statusVars, logVars, pushVars, pipelineVars, routeVars, authVars>>
notPush == <<framerVars, linkVars, statusVars, logVars, snapshotVars, pipelineVars, routeVars, authVars>>
notPipeline == <<framerVars, linkVars, statusVars, logVars, snapshotVars, pushVars, routeVars, authVars>>
notRoutes == <<framerVars, statusVars, logVars, snapshotVars, pushVars, pipelineVars, authVars>>
notAuth == <<framerVars, linkVars, statusVars, logVars, snapshotVars, pushVars, pipelineVars, routeVars>>

(***************************************************************************)
(* Generic helpers                                                         *)
(***************************************************************************)
Min(a, b) == IF a <= b THEN a ELSE b

\* Buffer.subarray(from, to) with 0-based, end-exclusive indices.
subarray(buf, from, to) == SubSeq(buf, from + 1, Min(to, Len(buf)))

RECURSIVE Flatten(_)
Flatten(seqs) ==
  IF seqs = <<>> THEN <<>> ELSE Head(seqs) \o Flatten(Tail(seqs))

(***************************************************************************)
(* LOG FRAMER                                                              *)
(* Bytes are integers 0..255; text is kept as its sequence of code units   *)
(* (the payloads used are ASCII, for which toString('utf8') maps one byte  *)
(* to one code unit of the same value).                                    *)
(***************************************************************************)
LF == 10
CR == 13
SP == 32
TAB == 9

\* The characters String.prototype.trim and the regexp class \s remove/match
\* among the byte values used here.
IsSpace(c) == c \in {SP, TAB, LF, CR, 11, 12}
IsDigit(c) == c >= 48 /\ c <= 57
\* The regexp `.` matches anything but a line terminator.
IsLineTerminator(c) == c \in {LF, CR}

\* Buffer.readUInt32BE(offset): big-endian unsigned 32-bit (offset 0-based).
readUInt32LE(buf, offset) ==
    buf[offset + 4] * 16777216 + buf[offset + 3] * 65536
  + buf[offset + 2] * 256 + buf[offset + 1]

readUInt32BE(buf, offset) ==
    buf[offset + 1] * 16777216 + buf[offset + 2] * 65536
  + buf[offset + 3] * 256 + buf[offset + 4]

\* The inverse encoding, used by the engine when it writes a frame header.
UInt32BE(n) ==
  << (n \div 16777216) % 256, (n \div 65536) % 256, (n \div 256) % 256, n % 256 >>

\* String.prototype.split('\n'): the pieces between separators, empty ones kept.
RECURSIVE splitFrom(_, _, _)
splitFrom(s, i, cur) ==
  IF i > Len(s) THEN <<cur>>
  ELSE IF s[i] = LF THEN <<cur>> \o splitFrom(s, i + 1, <<>>)
  ELSE splitFrom(s, i + 1, Append(cur, s[i]))

split(s) == splitFrom(s, 1, <<>>)

\* String.prototype.trim
RECURSIVE trimStart(_)
trimStart(s) ==
  IF s # <<>> /\ IsSpace(Head(s)) THEN trimStart(Tail(s)) ELSE s

RECURSIVE trimEnd(_)
trimEnd(s) ==
  IF s # <<>> /\ IsSpace(s[Len(s)]) THEN trimEnd(SubSeq(s, 1, Len(s) - 1)) ELSE s

trim(s) == trimEnd(trimStart(s))

\* logData.split('\n').filter(line => line.trim())
nonBlankLines(logData) == SelectSeq(split(logData), LAMBDA line : trim(line) # <<>>)

\* Greedy quantifiers: the length of the longest run of digits (\d+) or of
\* white space (\s+) in s starting at index i.
RECURSIVE digitRun(_, _)
digitRun(s, i) ==
  IF i <= Len(s) /\ IsDigit(s[i]) THEN 1 + digitRun(s, i + 1) ELSE 0

RECURSIVE spaceRun(_, _)
spaceRun(s, i) ==
  IF i <= Len(s) /\ IsSpace(s[i]) THEN 1 + spaceRun(s, i + 1) ELSE 0

\* line.match(/^(\d{4}-\d{2}-\d{2}T\d{2}:\d{2}:\d{2}\.\d+Z)\s+(.*)$/)
\* Returns <<>> for no match, else <<group1, group2>>.
timestampMatch(line) ==
  LET digitsAt(S) == \A i \in S : i <= Len(line) /\ IsDigit(line[i])
      charAt(i, c) == i <= Len(line) /\ line[i] = c
      fixed == /\ digitsAt({1, 2, 3, 4})   /\ charAt(5, 45)
               /\ digitsAt({6, 7})         /\ charAt(8, 45)
               /\ digitsAt({9, 10})        /\ charAt(11, 84)
               /\ digitsAt({12, 13})       /\ charAt(14, 58)
               /\ digitsAt({15, 16})       /\ charAt(17, 58)
               /\ digitsAt({18, 19})       /\ charAt(20, 46)
      frac  == digitRun(line, 21)
      zpos  == 21 + frac
      ws    == spaceRun(line, zpos + 1)
      rest  == SubSeq(line, zpos + 1 + ws, Len(line))
  IN IF /\ fixed
        /\ frac >= 1
        /\ charAt(zpos, 90)
        /\ ws >= 1
        /\ \A i \in 1..Len(rest) : ~IsLineTerminator(rest[i])
     THEN << SubSeq(line, 1, zpos), rest >>
     ELSE <<>>

\* new Date().toISOString(): the time of processing, not derived from the
\* frame.  It is kept as one token: two default timestamps are never
\* compared for their value.
NowTs == <<"now">>

\* One LogEntry per line of a frame's payload.
logEntry(line, level) ==
  LET m == timestampMatch(line)
  IN [ ts    |-> IF m # <<>> THEN m[1] ELSE NowTs,
       line  |-> IF m # <<>> THEN m[2] ELSE line,
       level |-> level ]

frameEntries(streamType, logData) ==
  LET source == IF streamType = 1 THEN "stdout" ELSE "stderr"
      level  == IF source = "stderr" THEN "error" ELSE "info"
      lines  == nonBlankLines(logData)
  IN [ i \in 1..Len(lines) |-> logEntry(lines[i], level) ]

\* Bytes kept for the next call: `if (processed > 0) buffer = buffer.subarray(processed)`.
DropAllRemainder(buf, processed) == <<>>

KeepWholeBuffer(buf, processed) == buf

keepRemainder(buf, processed) ==
  IF processed > 0 THEN subarray(buf, processed, Len(buf)) ELSE buf

\* The while loop of processLogData over the accumulated buffer:
\* returns [buffer |-> bytes kept, out |-> entries sent].
RECURSIVE frameLoop(_, _, _)
frameLoop(buf, processed, out) ==
  IF ~(processed < Len(buf)) THEN [processed |-> processed, out |-> out]
  ELSE IF Len(buf) - processed < 8 THEN [processed |-> processed, out |-> out]
  ELSE LET streamType == buf[processed + 1]
           size       == readUInt32BE(buf, processed + 4)
       IN IF Len(buf) - processed < 8 + size
          THEN [processed |-> processed, out |-> out]
          ELSE frameLoop(buf, processed + 8 + size,
                 out \o frameEntries(streamType,
                          subarray(buf, processed + 8, processed + 8 + size)))

processLogData(buf0, chunk) ==
  LET buf == buf0 \o chunk
      r   == frameLoop(buf, 0, <<>>)
  IN [ buffer |-> keepRemainder(buf, r.processed), out |-> r.out ]

\* ---- DockerService.demuxLogs: the whole buffer at once ----

\* The records demuxLogs pushes for one frame's payload.
demuxEntries(streamType, logData) ==
  LET source == IF streamType = 1 THEN "stdout" ELSE "stderr"
      lines  == nonBlankLines(logData)
  IN [ i \in 1..Len(lines) |->
         LET m == timestampMatch(lines[i])
         IN [ timestamp |-> IF m # <<>> THEN m[1] ELSE NowTs,
              line      |-> IF m # <<>> THEN m[2] ELSE lines[i],
              source    |-> source ] ]

\* A loop that takes what is left of the buffer for a frame cut short.
DemuxPartial(buf, offset, logs) ==
  IF offset + 8 > Len(buf) THEN logs
  ELSE logs \o demuxEntries(buf[offset + 1], subarray(buf, offset + 8, Len(buf)))

\* The while loop of demuxLogs from `offset` on.
RECURSIVE demuxLoop(_, _, _)
demuxLoop(buf, offset, logs) ==
  IF ~(offset < Len(buf)) THEN logs
  ELSE IF offset + 8 > Len(buf) THEN logs
  ELSE LET streamType == buf[offset + 1]
           size       == readUInt32BE(buf, offset + 4)
       IN IF offset + 8 + size > Len(buf) THEN logs
          ELSE demuxLoop(buf, offset + 8 + size,
                 logs \o demuxEntries(streamType,
                           subarray(buf, offset + 8, offset + 8 + size)))

demuxLogs(buf) == demuxLoop(buf, 0, <<>>)

\* ---- the engine side: well-formed frames ----
MaxFrames == 2

Tags == {1, 2}

TsLine == << 50,48,50,53,45,48,49,45,48,49,84,48,48,58,48,48,58,48,48,46,48,90,32,120 >>

Payloads ==
  { << 97, LF >>,                    \* "a\n"
    << 97, LF, SP, LF, 98 >>,        \* "a\n \nb": a blank line, no final newline
    TsLine \o << LF >>,              \* "2025-01-01T00:00:00.0Z x\n"
    << >> }                          \* an empty payload

Frame(tag, payload) == << tag, 0, 0, 0 >> \o UInt32BE(Len(payload)) \o payload

FrameSet == { Frame(t, p) : t \in Tags, p \in Payloads }

Streams ==
  { Flatten(fs) : fs \in UNION { [1..n -> FrameSet] : n \in 0..MaxFrames } }

FramerInit ==
  /\ stream \in Streams
  /\ fed = 0
  /\ buffer = <<>>
  /\ emitted = <<>>

FramerIdle ==
  /\ stream = <<>>
  /\ fed = 0
  /\ buffer = <<>>
  /\ emitted = <<>>

\* logStream 'data' event: the next chunk, of any length, is handed to
\* processLogData; every entry is sent on the (open) connection.
OnLogData ==
  \E k \in 1..(Len(stream) - fed) :
    LET chunk == SubSeq(stream, fed + 1, fed + k)
        r     == processLogData(buffer, chunk)
    IN /\ fed' = fed + k
       /\ buffer' = r.buffer
       /\ emitted' = emitted \o r.out
       /\ UNCHANGED <<stream, notFramer>>

(***************************************************************************)
(* LINK STORE                                                              *)
(* File contents are sequences of code units; a URL is the sequence of     *)
(* its code units.  The directory holds two paths, linksFilePath           *)
(* ("links") and `${linksFilePath}.tmp` ("tmp").                           *)
(***************************************************************************)
Procs == {1, 2}

NoFile == [exists |-> FALSE, data |-> <<>>]
File(d) == [exists |-> TRUE, data |-> d]

\* crypto.createHash('sha256').update(url).digest('hex'), as an injective
\* numeral of the code units (no two URLs of the model collide, as no two
\* known strings collide under SHA-256).
RECURSIVE generateId(_)
generateId(url) ==
  IF url = <<>> THEN 1
  ELSE generateId(SubSeq(url, 1, Len(url) - 1)) * 257 + url[Len(url)] + 1

\* content.split('\n').map(line => line.trim()).filter(line => line.length > 0)
parseUrls(content) ==
  LET lines == split(content)
      trimmed == [i \in 1..Len(lines) |-> trim(lines[i])]
  IN SelectSeq(trimmed, LAMBDA line : Len(line) > 0)

\* readLinks: ENOENT is the empty list.
readLinks(file) == IF file.exists THEN parseUrls(file.data) ELSE <<>>

\* Array.prototype.join('\n')
RECURSIVE join(_)
join(lines) ==
  IF lines = <<>> THEN <<>>
  ELSE IF Len(lines) = 1 THEN lines[1]
  ELSE lines[1] \o <<LF>> \o join(Tail(lines))

\* currentContent: the second readFile of addLink/addBulkLinks, '' on ENOENT.
currentContentOf(file) == IF file.exists THEN file.data ELSE <<>>

\* currentContent + (currentContent && !currentContent.endsWith('\n') ? '\n' : '') + text + '\n'
appendContent(currentContent, text) ==
  currentContent
    \o (IF currentContent # <<>> /\ currentContent[Len(currentContent)] # LF
        THEN <<LF>> ELSE <<>>)
    \o text \o <<LF>>

\* existingLinks.find(link => link.url === url)
hasUrl(existingLinks, url) == \E i \in 1..Len(existingLinks) : existingLinks[i] = url

\* urls.filter(url => !existingUrls.has(url))
filterNew(urls, existingLinks) == SelectSeq(urls, LAMBDA u : ~hasUrl(existingLinks, u))

\* links.find(link => link.id === id)
AlwaysFound(links, id) == TRUE

hasId(links, id) == \E i \in 1..Len(links) : generateId(links[i]) = id

\* remainingUrls.length > 0 ? remainingUrls.join('\n') + '\n' : ''
removeContent(links, id) ==
  LET remainingUrls == SelectSeq(links, LAMBDA u : generateId(u) # id)
  IN IF Len(remainingUrls) > 0 THEN join(remainingUrls) \o <<LF>> ELSE <<>>

\* const tempFile = `${this.linksFilePath}.tmp`: the path written before the rename.
WriteInPlace == "links"

tempFile == "tmp"

\* A write of `chunk` at offset `off` into a file's data (a gap left by a
\* truncation reads as zero bytes).
RECURSIVE zeros(_)
zeros(n) == IF n <= 0 THEN <<>> ELSE <<0>> \o zeros(n - 1)

pwrite(data, off, chunk) ==
  LET base == IF Len(data) >= off THEN SubSeq(data, 1, off)
              ELSE data \o zeros(off - Len(data))
  IN base \o chunk \o SubSeq(data, off + Len(chunk) + 1, Len(data))

\* ---- inputs ----
MaxLines == 3

UrlA == <<97>>
UrlB == <<98>>
UrlASpace == <<97, SP>>          \* a URL with a trailing blank
UrlLines == <<97, LF, 98>>       \* a URL with a line break inside

Urls == {UrlA, UrlB, UrlASpace, UrlLines}

BulkInputs ==
  { <<>>, <<UrlA>>, <<UrlA, UrlB>>, <<UrlB, UrlB>>, <<UrlA, UrlB, UrlA>>,
    <<UrlASpace>> }

UnknownId == 0

Ids == { generateId(u) : u \in Urls } \cup {UnknownId}

NoArg == [url |-> <<>>, urls |-> <<>>, id |-> UnknownId]

Ops ==
       { [kind |-> "add", url |-> u, urls |-> <<>>, id |-> UnknownId] : u \in Urls }
  \cup { [kind |-> "addBulk", url |-> <<>>, urls |-> us, id |-> UnknownId] : us \in BulkInputs }
  \cup { [kind |-> "remove", url |-> <<>>, urls |-> <<>>, id |-> i] : i \in Ids }

NoOp == [kind |-> "none", url |-> <<>>, urls |-> <<>>, id |-> UnknownId]

\* Results: add -> {id, isNew}; addBulk -> count; remove -> boolean; a throw.
NoRet == [kind |-> "none", id |-> UnknownId, n |-> 0, b |-> FALSE]
RetId(i, isNew) == [kind |-> "id", id |-> i, n |-> 0, b |-> isNew]
RetCount(k) == [kind |-> "count", id |-> UnknownId, n |-> k, b |-> FALSE]
RetBool(v) == [kind |-> "bool", id |-> UnknownId, n |-> 0, b |-> v]
RetError == [kind |-> "error", id |-> UnknownId, n |-> 0, b |-> FALSE]

IdleProc ==
  [ pc |-> "idle", op |-> NoOp, existingLinks |-> <<>>, newContent |-> <<>>,
    off |-> 0, wrote |-> FALSE, unlinked |-> FALSE, ret |-> NoRet ]

NoMut == [called |-> FALSE, pre |-> NoFile, hasPost |-> FALSE, post |-> NoFile,
          crashed |-> FALSE]

NoPrev == [op |-> NoOp, ret |-> NoRet, nBefore |-> 0, before |-> <<>>]

\* Artifacts the store can be found with: absent, empty, with and without a
\* final newline, with a blank line.
InitialContents ==
  { NoFile, File(<<>>), File(UrlA \o <<LF>>), File(UrlA),
    File(UrlA \o <<LF, LF>> \o UrlB \o <<LF>>) }

LinksInit ==
  /\ files \in { [links |-> f, tmp |-> NoFile] : f \in InitialContents }
  /\ fdAt = [p \in Procs |-> "none"]
  /\ proc = [p \in Procs |-> IdleProc]
  /\ prev = NoPrev
  /\ mut = [p \in Procs |-> NoMut]

LinksIdle ==
  /\ files = [links |-> NoFile, tmp |-> NoFile]
  /\ fdAt = [p \in Procs |-> "none"]
  /\ proc = [p \in Procs |-> IdleProc]
  /\ prev = NoPrev
  /\ mut = [p \in Procs |-> NoMut]

\* ---- the methods, one action per suspension point ----

\* A call of addLink / addBulkLinks / removeLink begins (ensureDirectoryExists
\* finds the directory).  MaxLines bounds the growth of the artifact.
Call(p, o) ==
  /\ proc[p].pc = "idle"
  /\ o.kind = "remove" \/ Len(readLinks(files.links)) < MaxLines
  /\ proc' = [proc EXCEPT ![p] = [IdleProc EXCEPT !.pc = "readLinks", !.op = o]]
  /\ mut' = [mut EXCEPT ![p] = [called |-> TRUE, pre |-> files.links,
                                hasPost |-> FALSE, post |-> NoFile,
                                crashed |-> FALSE]]
  /\ UNCHANGED <<files, fdAt, prev>>
  /\ UNCHANGED notLinks

\* `await this.readLinks()` and the synchronous decision that follows it.
ReadLinks(p) ==
  /\ proc[p].pc = "readLinks"
  /\ LET o == proc[p].op
         links == readLinks(files.links)
         me == [proc[p] EXCEPT !.existingLinks = links]
     IN CASE o.kind = "add" ->
               /\ proc' = [proc EXCEPT ![p] =
                    IF hasUrl(links, o.url)
                    THEN [me EXCEPT !.pc = "done",
                                    !.ret = RetId(generateId(o.url), FALSE)]
                    ELSE [me EXCEPT !.pc = "readCurrent"]]
               /\ mut' = mut
          [] o.kind = "addBulk" ->
               /\ proc' = [proc EXCEPT ![p] =
                    IF Len(filterNew(o.urls, links)) = 0
                    THEN [me EXCEPT !.pc = "done", !.ret = RetCount(0)]
                    ELSE [me EXCEPT !.pc = "readCurrent"]]
               /\ mut' = mut
          [] o.kind = "remove" ->
               IF ~hasId(links, o.id)
               THEN /\ proc' = [proc EXCEPT ![p] =
                                  [me EXCEPT !.pc = "done", !.ret = RetBool(FALSE)]]
                    /\ mut' = mut
               ELSE /\ proc' = [proc EXCEPT ![p] =
                                  [me EXCEPT !.pc = "open",
                                             !.newContent = removeContent(links, o.id)]]
                    /\ mut' = [mut EXCEPT ![p].hasPost = TRUE,
                                          ![p].post = File(removeContent(links, o.id))]
  /\ UNCHANGED <<files, fdAt, prev>>
  /\ UNCHANGED notLinks

\* addLink / addBulkLinks: `currentContent = await fs.readFile(...)` and newContent.
ReadCurrent(p) ==
  /\ proc[p].pc = "readCurrent"
  /\ LET o == proc[p].op
         currentContent == currentContentOf(files.links)
         text == IF o.kind = "add" THEN o.url
                 ELSE join(filterNew(o.urls, proc[p].existingLinks))
         newContent == appendContent(currentContent, text)
     IN /\ proc' = [proc EXCEPT ![p].pc = "open", ![p].newContent = newContent]
        /\ mut' = [mut EXCEPT ![p].hasPost = TRUE, ![p].post = File(newContent)]
  /\ UNCHANGED <<files, fdAt, prev>>
  /\ UNCHANGED notLinks

\* That readFile rejects for a reason other than the file being absent
\* (`if (error.code !== 'ENOENT') throw error`): control goes to the catch
\* block with no content computed and nothing written.
ReadCurrentFails(p) ==
  /\ proc[p].pc = "readCurrent"
  /\ proc' = [proc EXCEPT ![p].pc = "catch"]
  /\ UNCHANGED <<files, fdAt, prev, mut>>
  /\ UNCHANGED notLinks

\* fs.writeFile(tempFile, ...): open with flag 'w' creates or truncates.
OpenTemp(p) ==
  /\ proc[p].pc = "open"
  /\ files' = [files EXCEPT ![tempFile] = File(<<>>)]
  /\ fdAt' = [fdAt EXCEPT ![p] = tempFile]
  /\ proc' = [proc EXCEPT ![p].pc = "write", ![p].off = 0, ![p].wrote = TRUE]
  /\ UNCHANGED <<prev, mut>>
  /\ UNCHANGED notLinks

\* fs.writeFile: one write of the next part of newContent through the handle.
WriteChunk(p) ==
  /\ proc[p].pc = "write"
  /\ \E k \in 1..(Len(proc[p].newContent) - proc[p].off) :
       LET chunk == SubSeq(proc[p].newContent, proc[p].off + 1, proc[p].off + k)
       IN /\ files' = IF fdAt[p] \in {"links", "tmp"}
                      THEN [files EXCEPT ![fdAt[p]].data = pwrite(@, proc[p].off, chunk)]
                      ELSE files
          /\ proc' = [proc EXCEPT ![p].off = @ + k]
  /\ UNCHANGED <<fdAt, prev, mut>>
  /\ UNCHANGED notLinks

\* fs.writeFile: everything written, the handle is closed and writeFile resolves.
CloseTemp(p) ==
  /\ proc[p].pc = "write"
  /\ proc[p].off = Len(proc[p].newContent)
  /\ fdAt' = [fdAt EXCEPT ![p] = "none"]
  /\ proc' = [proc EXCEPT ![p].pc = "rename"]
  /\ UNCHANGED <<files, prev, mut>>
  /\ UNCHANGED notLinks

\* fs.writeFile rejects (open or write error): control goes to the catch block.
WriteFileFails(p) ==
  /\ proc[p].pc \in {"open", "write"}
  /\ fdAt' = [fdAt EXCEPT ![p] = "none"]
  /\ proc' = [proc EXCEPT ![p].pc = "catch"]
  /\ UNCHANGED <<files, prev, mut>>
  /\ UNCHANGED notLinks

\* The value the method returns after the rename.
successRet(me) ==
  CASE me.op.kind = "add" -> RetId(generateId(me.op.url), TRUE)
    [] me.op.kind = "addBulk" -> RetCount(Len(filterNew(me.op.urls, me.existingLinks)))
    [] OTHER -> RetBool(TRUE)

\* fs.rename(tempFile, linksFilePath): atomic; ENOENT when tempFile is gone.
Rename(p) ==
  /\ proc[p].pc = "rename"
  /\ IF files[tempFile].exists
     THEN /\ files' = IF tempFile = "links" THEN files
                      ELSE [links |-> files[tempFile], tmp |-> NoFile]
          /\ fdAt' = IF tempFile = "links" THEN fdAt
                     ELSE [q \in Procs |->
                             IF fdAt[q] = tempFile THEN "links"
                             ELSE IF fdAt[q] = "links" THEN "orphan"
                             ELSE fdAt[q]]
          /\ proc' = [proc EXCEPT ![p].pc = "done", ![p].ret = successRet(proc[p])]
     ELSE /\ proc' = [proc EXCEPT ![p].pc = "catch"]
          /\ UNCHANGED <<files, fdAt>>
  /\ UNCHANGED <<prev, mut>>
  /\ UNCHANGED notLinks

\* fs.rename rejects for another reason (permissions, I/O error).
RenameFails(p) ==
  /\ proc[p].pc = "rename"
  /\ proc' = [proc EXCEPT ![p].pc = "catch"]
  /\ UNCHANGED <<files, fdAt, prev, mut>>
  /\ UNCHANGED notLinks

\* fs.unlink(path): the directory entry is removed (ENOENT if there is none).
KeepTemp(fs, path) == fs

unlink(fs, path) == [fs EXCEPT ![path] = NoFile]

\* catch: `try { await fs.unlink(tempFile) } catch {}` then throw.
Unlink(p) ==
  /\ proc[p].pc = "catch"
  /\ files' = unlink(files, tempFile)
  /\ fdAt' = [q \in Procs |-> IF fdAt[q] = tempFile /\ files[tempFile].exists
                              THEN "orphan" ELSE fdAt[q]]
  /\ proc' = [proc EXCEPT ![p].pc = "done", ![p].ret = RetError,
                           ![p].unlinked = TRUE]
  /\ UNCHANGED <<prev, mut>>
  /\ UNCHANGED notLinks

\* catch: the unlink of an existing tempFile rejects too (the directory
\* refuses the change); the inner catch ignores it, then throw.
UnlinkFails(p) ==
  /\ proc[p].pc = "catch"
  /\ files[tempFile].exists
  /\ proc' = [proc EXCEPT ![p].pc = "done", ![p].ret = RetError]
  /\ UNCHANGED <<files, fdAt, prev, mut>>
  /\ UNCHANGED notLinks

\* The method's promise settles and the caller takes the result.
Return(p) ==
  /\ proc[p].pc = "done"
  /\ prev' = [op |-> proc[p].op, ret |-> proc[p].ret,
              nBefore |-> Len(proc[p].existingLinks),
              before |-> proc[p].existingLinks]
  /\ proc' = [proc EXCEPT ![p] = IdleProc]
  /\ UNCHANGED <<files, fdAt, mut>>
  /\ UNCHANGED notLinks

\* How fs.readFile(linksFilePath) can reject for a reason other than the
\* file being absent (permissions, an I/O error, a directory in its place).
ReadFaults == {"none", "EACCES"}

\* The code of the error readFile rejects with, "none" when it resolves.
readFileError(file, fault) ==
  IF fault # "none" THEN fault ELSE IF file.exists THEN "none" ELSE "ENOENT"

\* Every rejection taken for a missing file.
AnyErrorIsEmpty(code) == TRUE

\* readLinks' catch: `error.code === 'ENOENT'` returns [], anything else throws.
isMissing(code) == code = "ENOENT"

ListOp == [kind |-> "list", url |-> <<>>, urls |-> <<>>, id |-> UnknownId]

RetList(links) ==
  [kind |-> "list", id |-> UnknownId, n |-> Len(links), b |-> FALSE, links |-> links]

\* What readLinks() settles with for a file and a fault.
readLinksOutcome(file, fault) ==
  LET code == readFileError(file, fault)
  IN IF code = "none" THEN RetList(parseUrls(file.data))
     ELSE IF isMissing(code) THEN RetList(<<>>)
     ELSE RetError

\* GET /api/links: readLinks() is called and its readFile settles.  A
\* rejection is settled in the catch at once; a content is parsed and
\* getFileStats() is awaited before the list is returned.
ListLinks(p, fault) ==
  /\ proc[p].pc = "idle"
  /\ IF readFileError(files.links, fault) = "none"
     THEN /\ proc' = [proc EXCEPT ![p] =
                        [IdleProc EXCEPT !.pc = "stat", !.op = ListOp,
                                         !.existingLinks = parseUrls(files.links.data)]]
          /\ prev' = prev
     ELSE /\ prev' = [op |-> ListOp, ret |-> readLinksOutcome(files.links, fault),
                      nBefore |-> 0, before |-> <<>>]
          /\ proc' = proc
  /\ UNCHANGED <<files, fdAt, mut>>
  /\ UNCHANGED notLinks

\* getFileStats() settles: readLinks returns the list it parsed, whatever
\* the artifact holds by now.
ListStat(p) ==
  /\ proc[p].pc = "stat"
  /\ prev' = [op |-> ListOp, ret |-> RetList(proc[p].existingLinks),
              nBefore |-> 0, before |-> <<>>]
  /\ proc' = [proc EXCEPT ![p] = IdleProc]
  /\ UNCHANGED <<files, fdAt, mut>>
  /\ UNCHANGED notLinks

\* `await this.readLinks()` inside a mutation throws: the mutation rejects
\* before it has written anything.
ReadLinksFails(p) ==
  /\ proc[p].pc = "readLinks"
  /\ ~isMissing(readFileError(files.links, "EACCES"))
  /\ proc' = [proc EXCEPT ![p].pc = "done", ![p].ret = RetError]
  /\ UNCHANGED <<files, fdAt, prev, mut>>
  /\ UNCHANGED notLinks

\* The process dies in the middle of a call and is started again: the
\* calls in progress are gone, the directory is as they left it.
Crash ==
  /\ \E p \in Procs : proc[p].pc \notin {"idle", "done"}
  /\ proc' = [p \in Procs |-> IdleProc]
  /\ fdAt' = [p \in Procs |-> "none"]
  /\ prev' = NoPrev
  /\ mut' = [p \in Procs |->
               IF proc[p].pc \notin {"idle", "done"}
               THEN [mut[p] EXCEPT !.crashed = TRUE] ELSE mut[p]]
  /\ UNCHANGED files
  /\ UNCHANGED notLinks

(***************************************************************************)
(* LINK ROUTES                                                             *)
(* POST /api/links and POST /api/links/bulk: the request body is checked   *)
(* against AddLinkSchema / BulkAddLinksSchema before FileService is        *)
(* called; DELETE /api/links/:id checks its parameter.  In a string, MEGA *)
(* stands for the sixteen code units of 'https://mega.nz/' and ELSEWHERE   *)
(* for those of 'https://example.com/'.                                    *)
(***************************************************************************)
MEGA == 200
ELSEWHERE == 201

\* The code units of 'https://mega.nz/' and of 'https://example.com/'.
megaPrefix ==
  <<104, 116, 116, 112, 115, 58, 47, 47, 109, 101, 103, 97, 46, 110, 122, 47>>
elsewherePrefix ==
  <<104, 116, 116, 112, 115, 58, 47, 47, 101, 120, 97, 109, 112, 108, 101, 46,
    99, 111, 109, 47>>

\* The code units of a string, MEGA and ELSEWHERE written out.
RECURSIVE codeUnits(_)
codeUnits(s) ==
  IF s = <<>> THEN <<>>
  ELSE (IF Head(s) = MEGA THEN megaPrefix
        ELSE IF Head(s) = ELSEWHERE THEN elsewherePrefix
        ELSE <<Head(s)>>) \o codeUnits(Tail(s))

\* String.prototype.startsWith('https://mega.nz/')
startsWithMega(url) ==
  LET u == codeUnits(url)
  IN Len(u) >= Len(megaPrefix) /\ SubSeq(u, 1, Len(megaPrefix)) = megaPrefix

\* ---- what `new URL(input)` accepts (the URL parser, no base URL) ----
IsAlpha(c) == (c >= 65 /\ c <= 90) \/ (c >= 97 /\ c <= 122)
IsHexDigit(c) == IsDigit(c) \/ (c >= 65 /\ c <= 70) \/ (c >= 97 /\ c <= 102)
toLower(c) == IF c >= 65 /\ c <= 90 THEN c + 32 ELSE c
hexValue(c) == IF IsDigit(c) THEN c - 48 ELSE toLower(c) - 87

\* The first index from i on whose unit is in `stops`, Len(t) + 1 if none.
RECURSIVE indexOfAny(_, _, _)
indexOfAny(t, i, stops) ==
  IF i > Len(t) \/ t[i] \in stops THEN i ELSE indexOfAny(t, i + 1, stops)

\* The first index from i on whose unit is not in `run`, Len(t) + 1 if none.
RECURSIVE endOfRun(_, _, _)
endOfRun(t, i, run) ==
  IF i > Len(t) \/ t[i] \notin run THEN i ELSE endOfRun(t, i + 1, run)

Digits == 48..57
HexDigits == Digits \cup (65..70) \cup (97..102)
SchemeUnits == Digits \cup (65..90) \cup (97..122) \cup {43, 45, 46}

\* Leading and trailing C0 controls and spaces are removed, then every tab
\* and line break.
RECURSIVE stripLeading(_)
stripLeading(t) == IF t # <<>> /\ Head(t) <= SP THEN stripLeading(Tail(t)) ELSE t

RECURSIVE stripTrailing(_)
stripTrailing(t) ==
  IF t # <<>> /\ t[Len(t)] <= SP THEN stripTrailing(SubSeq(t, 1, Len(t) - 1)) ELSE t

urlInput(t) ==
  SelectSeq(stripTrailing(stripLeading(t)), LAMBDA c : c \notin {TAB, LF, CR})

ForbiddenHost ==
  {0, TAB, LF, CR, SP, 35, 47, 58, 60, 62, 63, 64, 91, 92, 93, 94, 124}
ForbiddenDomain == ForbiddenHost \cup (0..31) \cup {37, 127}

\* "%41" becomes "A"; a percent sign without two hex digits stays.
RECURSIVE percentDecode(_)
percentDecode(t) ==
  IF t = <<>> THEN <<>>
  ELSE IF Head(t) = 37 /\ Len(t) >= 3 /\ IsHexDigit(t[2]) /\ IsHexDigit(t[3])
       THEN <<16 * hexValue(t[2]) + hexValue(t[3])>> \o percentDecode(SubSeq(t, 4, Len(t)))
       ELSE <<Head(t)>> \o percentDecode(Tail(t))

\* The pieces of a host between dots.
RECURSIVE labels(_)
labels(t) ==
  LET dot == indexOfAny(t, 1, {46})
  IN IF dot > Len(t) THEN <<t>>
     ELSE <<SubSeq(t, 1, dot - 1)>> \o labels(SubSeq(t, dot + 1, Len(t)))

\* The IPv4 number parser's radix and digits: 0x.. is hexadecimal, 0.. octal.
ipv4Radix(part) ==
  IF Len(part) >= 2 /\ part[1] = 48 /\ part[2] \in {88, 120} THEN 16
  ELSE IF Len(part) >= 2 /\ part[1] = 48 THEN 8
  ELSE 10

ipv4Digits(part) ==
  IF ipv4Radix(part) = 16 THEN SubSeq(part, 3, Len(part))
  ELSE IF ipv4Radix(part) = 8 THEN Tail(part)
  ELSE part

ipv4IsNumber(part) ==
  /\ part # <<>>
  /\ \A i \in 1..Len(ipv4Digits(part)) :
       /\ IsHexDigit(ipv4Digits(part)[i])
       /\ hexValue(ipv4Digits(part)[i]) < ipv4Radix(part)

\* The number in units of 256^3, 256^2, 256 and 1 would not fit TLC's
\* integers; it is kept as <<high, low>> with value high * 65536 + low, and
\* high stops at 65536 (a number of 2^32 or more).
RECURSIVE ipv4Value(_, _, _)
ipv4Value(digits, radix, acc) ==
  IF digits = <<>> THEN acc
  ELSE LET low == acc[2] * radix + hexValue(Head(digits))
           high == Min(65536, acc[1] * radix + low \div 65536)
       IN ipv4Value(Tail(digits), radix, <<high, low % 65536>>)

ipv4Number(part) == ipv4Value(ipv4Digits(part), ipv4Radix(part), <<0, 0>>)

\* The host's labels, one trailing empty label dropped.
hostParts(host) ==
  LET parts == labels(host)
  IN IF Len(parts) > 1 /\ parts[Len(parts)] = <<>>
     THEN SubSeq(parts, 1, Len(parts) - 1) ELSE parts

\* "Ends in a number": the last label is all digits or an IPv4 number.
endsInNumber(host) ==
  LET last == hostParts(host)[Len(hostParts(host))]
  IN last # <<>> /\ ((\A i \in 1..Len(last) : IsDigit(last[i])) \/ ipv4IsNumber(last))

\* The IPv4 parser: at most four numbers, all but the last below 256, the
\* last below 256^(5 - their count).
ipv4Ok(host) ==
  LET parts == hostParts(host)
      n == Len(parts)
      last == ipv4Number(parts[n])
  IN /\ n <= 4
     /\ \A i \in 1..n : ipv4IsNumber(parts[i])
     /\ \A i \in 1..(n - 1) : ipv4Number(parts[i])[1] = 0 /\ ipv4Number(parts[i])[2] <= 255
     /\ CASE n = 1 -> last[1] < 65536
          [] n = 2 -> last[1] < 256
          [] n = 3 -> last[1] = 0
          [] OTHER -> last[1] = 0 /\ last[2] <= 255

\* The dotted quad that may end an IPv6 address: four numbers 0..255 without
\* leading zeros.
RECURSIVE ipv4InIpv6(_, _, _)
ipv4InIpv6(t, i, seen) ==
  IF i > Len(t) THEN seen = 4
  ELSE LET k == IF seen > 0 THEN i + 1 ELSE i
           e == endOfRun(t, k, Digits)
       IN /\ seen > 0 => (t[i] = 46 /\ seen < 4)
          /\ e > k /\ e - k <= 3
          /\ (e - k = 1 \/ t[k] # 48)
          /\ ipv4Value(SubSeq(t, k, e - 1), 10, <<0, 0>>)[2] <= 255
          /\ ipv4InIpv6(t, e, seen + 1)

\* The IPv6 parser: i is the pointer, n the piece index, z whether "::" was
\* seen.
RECURSIVE ipv6From(_, _, _, _)
ipv6From(t, i, n, z) ==
  IF i > Len(t) THEN z \/ n = 8
  ELSE IF n = 8 THEN FALSE
  ELSE IF t[i] = 58 THEN ~z /\ ipv6From(t, i + 1, n + 1, TRUE)
  ELSE LET j == Min(endOfRun(t, i, HexDigits), i + 4)
       IN IF j <= Len(t) /\ t[j] = 46
          THEN j > i /\ n <= 6 /\ ipv4InIpv6(t, i, 0) /\ (z \/ n + 2 = 8)
          ELSE IF j <= Len(t) /\ t[j] = 58
          THEN j + 1 <= Len(t) /\ ipv6From(t, j + 1, n + 1, z)
          ELSE j > Len(t) /\ (z \/ n + 1 = 8)

ipv6Ok(t) ==
  IF t # <<>> /\ t[1] = 58
  THEN Len(t) >= 2 /\ t[2] = 58 /\ ipv6From(t, 3, 1, TRUE)
  ELSE ipv6From(t, 1, 0, FALSE)

\* What domain-to-ASCII gives: a failure, or an ASCII domain.
ToAsciiFailure == [ok |-> FALSE, domain |-> <<>>]
ToAscii(domain) == [ok |-> TRUE, domain |-> domain]

\* Domain to ASCII (Unicode ToASCII, not strict).  ASCII code points pass
\* through it unchanged but for the case of letters.  A domain of ASCII
\* units with no label that begins with "xn--" is made lower case and
\* nothing else.  So is, here, a domain that holds a forbidden domain code
\* point: the result holds that code point too, whatever becomes of the
\* rest, and the host parser rejects it.  For any other domain (a unit above
\* 127, a percent-decoded byte above 127, a Punycode label) the result comes
\* from the Unicode tables of the runtime; it is not computed here but given
\* as `unicode`, the result url.domainToASCII has for this domain (which,
\* free of forbidden code points, that function takes whole).
domainToASCII(domain, unicode) ==
  LET punycode(label) ==
        /\ Len(label) >= 4
        /\ toLower(label[1]) = 120 /\ toLower(label[2]) = 110
        /\ label[3] = 45 /\ label[4] = 45
      tables ==
        \/ \E i \in 1..Len(domain) : domain[i] > 127
        \/ \E i \in 1..Len(labels(domain)) : punycode(labels(domain)[i])
  IN IF tables /\ \A i \in 1..Len(domain) : domain[i] \notin ForbiddenDomain
     THEN unicode
     ELSE ToAscii([i \in 1..Len(domain) |-> toLower(domain[i])])

\* The host parser.  A bracketed host is an IPv6 address.  The host of a
\* special scheme is percent-decoded and taken through domain-to-ASCII; the
\* result must be a non-empty domain without forbidden code points, or an
\* IPv4 address if it ends in a number.  Any other host is opaque and must
\* be free of forbidden host code points.
hostOk(host, special, unicode) ==
  IF host # <<>> /\ host[1] = 91
  THEN host[Len(host)] = 93 /\ ipv6Ok(SubSeq(host, 2, Len(host) - 1))
  ELSE IF ~special
  THEN \A i \in 1..Len(host) : host[i] \notin ForbiddenHost
  ELSE LET asciiDomain == domainToASCII(percentDecode(host), unicode)
           domain == asciiDomain.domain
       IN /\ asciiDomain.ok
          /\ domain # <<>>
          /\ \A i \in 1..Len(domain) : domain[i] \notin ForbiddenDomain
          /\ endsInNumber(domain) => ipv4Ok(domain)

\* The port: digits only, never above 65535.
RECURSIVE portOk(_, _)
portOk(t, acc) ==
  IF t = <<>> THEN TRUE
  ELSE /\ IsDigit(Head(t))
       /\ acc * 10 + (Head(t) - 48) <= 65535
       /\ portOk(Tail(t), acc * 10 + (Head(t) - 48))

\* The first ':' of host[:port] that is not inside brackets, 0 if none.
RECURSIVE portColon(_, _, _)
portColon(t, i, inside) ==
  IF i > Len(t) THEN 0
  ELSE IF t[i] = 58 /\ ~inside THEN i
  ELSE portColon(t, i + 1, (inside \/ t[i] = 91) /\ t[i] # 93)

\* Authority state, host state and port state: the host is what follows the
\* last '@'; it may be empty only for a scheme that is not special and only
\* without credentials and port.
authorityOk(authority, special, unicode) ==
  LET ats == {i \in 1..Len(authority) : authority[i] = 64}
      from == IF ats = {} THEN 1 ELSE (CHOOSE i \in ats : \A j \in ats : j <= i) + 1
      hostport == SubSeq(authority, from, Len(authority))
      colon == portColon(hostport, 1, FALSE)
  IN IF ats # {} /\ hostport = <<>> THEN FALSE
     ELSE IF colon > 0
     THEN /\ colon > 1
          /\ hostOk(SubSeq(hostport, 1, colon - 1), special, unicode)
          /\ portOk(SubSeq(hostport, colon + 1, Len(hostport)), 0)
     ELSE IF hostport = <<>> THEN ~special
     ELSE hostOk(hostport, special, unicode)

SpecialSchemes ==
  { <<104, 116, 116, 112>>, <<104, 116, 116, 112, 115>>, <<119, 115>>,
    <<119, 115, 115>>, <<102, 116, 112>> }
FileScheme == <<102, 105, 108, 101>>

\* z.string().url(): `new URL(input)` does not throw.  The input needs a
\* scheme (a letter, then letters, digits, '+', '-', '.', then ':').  After
\* http, https, ws, wss or ftp any run of '/' and '\' is skipped and a host
\* is required; after file a host is parsed only behind two slashes; after
\* any other scheme a host is parsed only behind "//", and everything else
\* is an opaque path.  Path, query and fragment never fail.  `unicode` is
\* what domain-to-ASCII gives for the host where the Unicode tables decide.
isUrl(input, unicode) ==
  LET t == urlInput(codeUnits(input))
      colon == endOfRun(t, 1, SchemeUnits)
      scheme == [i \in 1..(colon - 1) |-> toLower(t[i])]
      rest == SubSeq(t, colon + 1, Len(t))
      Slashes == {47, 92}
      at(i) == IF i <= Len(rest) THEN rest[i] ELSE 0
      upTo(from, stops) == SubSeq(rest, from, indexOfAny(rest, from, stops) - 1)
  IN /\ t # <<>> /\ IsAlpha(t[1])
     /\ colon <= Len(t) /\ t[colon] = 58
     /\ IF scheme \in SpecialSchemes
        THEN authorityOk(upTo(endOfRun(rest, 1, Slashes), {47, 92, 63, 35}), TRUE, unicode)
        ELSE IF scheme = FileScheme
        THEN IF at(1) \in Slashes /\ at(2) \in Slashes
             THEN LET host == upTo(3, {47, 92, 63, 35})
                  IN \/ host = <<>>
                     \/ (Len(host) = 2 /\ IsAlpha(host[1]) /\ host[2] \in {58, 124})
                     \/ hostOk(host, TRUE, unicode)
             ELSE TRUE
        ELSE IF at(1) = 47 /\ at(2) = 47
        THEN authorityOk(upTo(3, {47, 63, 35}), FALSE, unicode)
        ELSE TRUE

\* A JSON value given as `url` or as an element of `urls`.
Absent == [kind |-> "undefined", url |-> <<>>]
Number == [kind |-> "number", url |-> <<>>]
Str(s) == [kind |-> "string", url |-> s]

\* z.string().url().refine(url => url.startsWith('https://mega.nz/')).  A
\* string that starts with 'https://mega.nz/' has the host mega.nz, so the
\* Unicode tables never decide an allow-listed value.
urlSchema(v, unicode) ==
  v.kind = "string" /\ isUrl(v.url, unicode) /\ startsWithMega(v.url)

\* AddLinkSchema.safeParse(req.body).success
AddLinkSchema(body, unicode) == urlSchema(body, unicode)

\* BulkAddLinksSchema.safeParse(req.body).success; unicode[i] belongs to
\* the i-th element.
BulkAddLinksSchema(body, unicode) ==
  body.kind = "array"
    /\ \A i \in 1..Len(body.urls) : urlSchema(body.urls[i], unicode[i])

MegaA == <<MEGA, 97>>

\* 'http://\u00e9', a URL whose host is not ASCII, and the results
\* domain-to-ASCII can have for it: a failure, or 'xn--9ca'.
UrlUnicodeHost == <<104, 116, 116, 112, 58, 47, 47, 233>>
ToAsciiOutcomes == { ToAsciiFailure, ToAscii(<<120, 110, 45, 45, 57, 99, 97>>) }

\* The values a request carries as a URL: none, a number, an allow-listed
\* URL, a URL of another host, a word, an allow-listed URL after a blank,
\* an allow-listed URL with a line break and another URL after it, and a
\* URL with a host that is not ASCII.
UrlValues ==
  { Absent, Number, Str(MegaA), Str(<<ELSEWHERE, 97>>), Str(<<97>>),
    Str(<<SP>> \o MegaA), Str(<<MEGA, LF, ELSEWHERE>>), Str(UrlUnicodeHost) }

BulkBodies ==
  { [kind |-> "undefined", urls |-> <<>>], [kind |-> "array", urls |-> <<>>] }
  \cup { [kind |-> "array", urls |-> <<v>>] : v \in UrlValues \ {Absent} }
  \cup { [kind |-> "array", urls |-> <<Str(MegaA), v>>] : v \in UrlValues \ {Absent} }

NoLinkReply == [route |-> "none", status |-> 0, code |-> "none"]

RoutesInit == linkReply = NoLinkReply

RoutesIdle == linkReply = NoLinkReply

\* Artifacts the routes can find: absent, or holding allow-listed URLs.
RouteContents == { NoFile, File(MegaA \o <<LF>>) }

RouteLinksInit ==
  /\ files \in { [links |-> f, tmp |-> NoFile] : f \in RouteContents }
  /\ fdAt = [p \in Procs |-> "none"]
  /\ proc = [p \in Procs |-> IdleProc]
  /\ prev = NoPrev
  /\ mut = [p \in Procs |-> NoMut]

strings(values) == [i \in 1..Len(values) |-> values[i].url]

\* POST /api/links: 400 VALIDATION_ERROR unless the body parses, else
\* fileService.addLink(url).
PostLink(p, body) ==
  /\ proc[p].pc = "idle"
  /\ \E unicode \in ToAsciiOutcomes :
     IF AddLinkSchema(body, unicode)
     THEN Call(p, [kind |-> "add", url |-> body.url, urls |-> <<>>, id |-> UnknownId])
     ELSE /\ linkReply' = [route |-> "add", status |-> 400, code |-> "VALIDATION_ERROR"]
          /\ UNCHANGED linkVars
          /\ UNCHANGED notRoutes

\* POST /api/links/bulk: 400 VALIDATION_ERROR unless the body parses,
\* {created: 0} for an empty list, else fileService.addBulkLinks(urls).
PostBulk(p, body) ==
  /\ proc[p].pc = "idle"
  /\ \E unicode \in [1..Len(body.urls) -> ToAsciiOutcomes] :
     IF ~BulkAddLinksSchema(body, unicode)
     THEN /\ linkReply' = [route |-> "bulk", status |-> 400, code |-> "VALIDATION_ERROR"]
          /\ UNCHANGED linkVars
          /\ UNCHANGED notRoutes
     ELSE IF Len(body.urls) = 0
     THEN /\ linkReply' = [route |-> "bulk", status |-> 200, code |-> "created 0"]
          /\ UNCHANGED linkVars
          /\ UNCHANGED notRoutes
     ELSE Call(p, [kind |-> "addBulk", url |-> <<>>, urls |-> strings(body.urls),
                   id |-> UnknownId])

\* ---- DELETE /api/links/:id ----
\* The route parameter is text.  In it a digest, the sixty-four hex digits
\* generateId gives, stands as one unit: the numeral of the model.
digest(n) == <<n>>

\* link.id === id: a text that is not one digest is the id of no link.
idOf(id) == IF Len(id) = 1 THEN id[1] ELSE UnknownId

\* !id || id.trim().length === 0
blankId(id) == Len(id) = 0 \/ Len(trim(id)) = 0

\* What the handler answers for the parameter and, when it calls removeLink,
\* for removeLink's outcome (the ApiError's statusCode and code are what
\* errorHandler sends).
deleteResponse(id, ret) ==
  IF blankId(id) THEN [status |-> 400, code |-> "VALIDATION_ERROR"]
  ELSE IF ret.kind = "error" THEN [status |-> 500, code |-> "FILE_ERROR"]
  ELSE IF ~ret.b THEN [status |-> 404, code |-> "NOT_FOUND"]
  ELSE [status |-> 200, code |-> "ok"]

\* The parameters a request carries: blanks, the digest of the stored URL,
\* the digest of no URL, and a digest after a blank.
RouteIds ==
  { <<SP>>, <<TAB>>, <<SP, LF>>, digest(generateId(MegaA)), digest(UnknownId),
    <<SP, generateId(MegaA)>> }

\* DELETE /api/links/:id: 400 VALIDATION_ERROR for a blank parameter, else
\* fileService.removeLink(id).
DeleteLink(p, id) ==
  /\ proc[p].pc = "idle"
  /\ IF blankId(id)
     THEN /\ linkReply' = [route |-> "delete", status |-> deleteResponse(id, NoRet).status,
                           code |-> deleteResponse(id, NoRet).code]
          /\ UNCHANGED linkVars
          /\ UNCHANGED notRoutes
     ELSE Call(p, [kind |-> "remove", url |-> <<>>, urls |-> <<>>, id |-> idOf(id)])

(***************************************************************************)
(* AUTHENTICATION                                                          *)
(* createAuthMiddleware in front of the four routers mounted under /api;   *)
(* any other /api path falls through to the 404 handler.  Strings are      *)
(* sequences of code units.                                                *)
(***************************************************************************)
\* 'Bearer '
BearerPrefix == <<66, 101, 97, 114, 101, 114, 32>>

\* String.prototype.startsWith
AnyScheme(s, prefix) == Len(s) >= Len(prefix)

startsWith(s, prefix) == Len(s) >= Len(prefix) /\ SubSeq(s, 1, Len(prefix)) = prefix

\* String.prototype.substring(start)
substring(s, start) == SubSeq(s, start + 1, Len(s))

\* config.apiToken: process.env.API_TOKEN, undefined when not set.
NoToken == [set |-> FALSE, value |-> <<>>]
Token(t) == [set |-> TRUE, value |-> t]

\* `!config.apiToken`: undefined and '' are both falsy.
tokenConfigured(token) == token.set /\ token.value # <<>>

Secret == <<116, 107>>

Tokens == { NoToken, Token(<<>>), Token(Secret) }

\* req.headers.authorization
NoHeader == [present |-> FALSE, value |-> <<>>]
Header(v) == [present |-> TRUE, value |-> v]

\* No header, the right one, a wrong or longer or shorter token, an empty
\* token, a lower-case scheme, another scheme of the same length, the bare
\* token, and an empty header.
Headers ==
  { NoHeader, Header(BearerPrefix \o Secret), Header(BearerPrefix \o <<120, 120>>),
    Header(BearerPrefix \o Secret \o <<107>>), Header(BearerPrefix \o <<116>>),
    Header(BearerPrefix), Header(<<98, 101, 97, 114, 101, 114, 32>> \o Secret),
    Header(<<66, 97, 115, 105, 99, 32, 32>> \o Secret), Header(Secret), Header(<<>>) }

\* app.use('/api/status' | '/api/pipeline' | '/api/logs' | '/api/links', ..)
Mounted == {"status", "pipeline", "logs", "links"}

Paths == Mounted \cup {"other"}

\* What the middleware decides for a header under a configured token.
authMiddleware(token, header) ==
  IF ~tokenConfigured(token) THEN "next"
  ELSE IF ~header.present \/ header.value = <<>>
          \/ ~startsWith(header.value, BearerPrefix) THEN "UNAUTHORIZED"
  ELSE IF substring(header.value, 7) # token.value THEN "INVALID_TOKEN"
  ELSE "next"

NoAuthReply == [path |-> "none", header |-> NoHeader, status |-> 0, code |-> "none"]

AuthInit ==
  /\ apiToken \in Tokens
  /\ handled = {}
  /\ authReply = NoAuthReply

AuthIdle ==
  /\ apiToken = NoToken
  /\ handled = {}
  /\ authReply = NoAuthReply

\* A request under /api within the rate limits: the middleware of the
\* router its path is mounted on, then the router; the 404 handler for a
\* path no router is mounted on.
ApiRequest(path, header) ==
  LET verdict == authMiddleware(apiToken, header)
  IN /\ IF path \notin Mounted
        THEN /\ authReply' = [path |-> path, header |-> header,
                              status |-> 404, code |-> "NOT_FOUND"]
             /\ handled' = handled
        ELSE IF verdict = "next"
        THEN /\ authReply' = [path |-> path, header |-> header,
                              status |-> 200, code |-> "handled"]
             /\ handled' = handled \cup {path}
        ELSE /\ authReply' = [path |-> path, header |-> header,
                              status |-> 401, code |-> verdict]
             /\ handled' = handled
     /\ UNCHANGED apiToken
     /\ UNCHANGED notAuth

(***************************************************************************)
(* STATUS STREAM                                                           *)
(* The engine's answer to `inspect` for one container is a record          *)
(* [reachable, Running, Health, StartedAt, FinishedAt, Env]; "" is an      *)
(* absent (falsy) string.                                                   *)
(***************************************************************************)
Undefined == "undefined"

\* DockerService.getContainerInfo: inspect, or state 'unknown' when it throws.
FailureIsStopped(c) ==
  [ state      |-> IF c.reachable /\ c.Running THEN "running" ELSE "stopped",
    health     |-> IF c.Health # "" THEN c.Health ELSE "none",
    startedAt  |-> c.StartedAt,
    finishedAt |-> c.FinishedAt ]

getContainerInfo(c) ==
  IF c.reachable
  THEN [ state      |-> IF c.Running THEN "running" ELSE "stopped",
         health     |-> IF c.Health # "" THEN c.Health ELSE "none",
         startedAt  |-> c.StartedAt,
         finishedAt |-> c.FinishedAt ]
  ELSE [ state |-> "unknown", health |-> Undefined,
         startedAt |-> "", finishedAt |-> "" ]

RunningIsUp(vpnInfo) ==
  IF vpnInfo.state = "running" THEN "up"
  ELSE IF vpnInfo.state = "stopped" THEN "down"
  ELSE "unknown"

vpnStatusOf(vpnInfo) ==
  IF vpnInfo.state = "running"
  THEN (IF vpnInfo.health = "healthy" \/ vpnInfo.health = "none" THEN "up" ELSE "down")
  ELSE IF vpnInfo.state = "stopped" THEN "down"
  ELSE "unknown"

torStatusOf(torInfo) ==
  IF torInfo.state = "running" THEN "up"
  ELSE IF torInfo.state = "stopped" THEN "down"
  ELSE "unknown"

lastRunAtOf(pipelineInfo) ==
  IF pipelineInfo.state = "running" /\ pipelineInfo.startedAt # ""
  THEN pipelineInfo.startedAt
  ELSE IF pipelineInfo.finishedAt # "" THEN pipelineInfo.finishedAt
  ELSE Undefined

\* The loop over Config.Env: the first entry starting with CLEAN_JOBS= decides
\* (an entry is [key, nan, value], value being what parseInt returns).
RECURSIVE cleanJobsOf(_)
cleanJobsOf(env) ==
  IF env = <<>> THEN Undefined
  ELSE IF Head(env).key = "CLEAN_JOBS"
       THEN (IF Head(env).nan THEN Undefined ELSE Head(env).value)
       ELSE cleanJobsOf(Tail(env))

\* getCurrentStatus over what the engine answers (config.pipelineContainer
\* and config.appVersion are fixed and left out of the snapshot).  envOk
\* tells whether the second inspect of the pipeline container, the one that
\* reads Config.Env inside its own try/catch, goes through.
getCurrentStatusEnv(e, envOk) ==
  LET pipelineInfo == getContainerInfo(e.pipeline)
      vpnInfo      == getContainerInfo(e.vpn)
      torInfo      == getContainerInfo(e.tor)
  IN [ pipeline  |-> pipelineInfo.state,
       vpn       |-> vpnStatusOf(vpnInfo),
       tor       |-> torStatusOf(torInfo),
       lastRunAt |-> lastRunAtOf(pipelineInfo),
       cleanJobs |-> IF envOk THEN cleanJobsOf(e.pipeline.Env) ELSE Undefined ]

\* getCurrentStatus when a container answers either all inspects or none.
getCurrentStatus(e) == getCurrentStatusEnv(e, e.pipeline.reachable)

\* `let lastStatus: Status | null = null`
NullStatus ==
  [ pipeline |-> "null", vpn |-> "null", tor |-> "null",
    lastRunAt |-> Undefined, cleanJobs |-> Undefined ]

\* !lastStatus || JSON.stringify(currentStatus) !== JSON.stringify(lastStatus)
changed(currentStatus, last) == last = NullStatus \/ currentStatus # last

\* ---- engine states used ----
Up(health) ==
  [ reachable |-> TRUE, Running |-> TRUE, Health |-> health,
    StartedAt |-> "t1", FinishedAt |-> "", Env |-> <<>> ]

PipelineRunning ==
  [ reachable |-> TRUE, Running |-> TRUE, Health |-> "",
    StartedAt |-> "t1", FinishedAt |-> "",
    Env |-> << [key |-> "CLEAN_JOBS", nan |-> FALSE, value |-> 4] >> ]

PipelineStopped ==
  [ reachable |-> TRUE, Running |-> FALSE, Health |-> "",
    StartedAt |-> "t1", FinishedAt |-> "t2",
    Env |-> << [key |-> "CLEAN_JOBS", nan |-> FALSE, value |-> 4] >> ]

\* Two engine states with different snapshots and a third whose snapshot
\* equals the first's (vpn without a health check instead of healthy).
Worlds ==
  { [pipeline |-> PipelineRunning, vpn |-> Up("healthy"), tor |-> Up("")],
    [pipeline |-> PipelineStopped, vpn |-> Up("healthy"), tor |-> Up("")],
    [pipeline |-> PipelineRunning, vpn |-> Up(""), tor |-> Up("")] }

MaxChanges == 2
ChunkSizes == {1, 2}

SConns == {1, 2}

\* Frames written to the transport.
RetryFrame == [type |-> "retry", data |-> NullStatus]
DataFrame(status) == [type |-> "data", data |-> status]
ErrorFrame == [type |-> "error", data |-> NullStatus]
PingFrame == [type |-> "ping", data |-> NullStatus]

NoTask == [active |-> FALSE, left |-> 0, status |-> NullStatus]

NewConn ==
  [ hpc |-> "idle",            \* position of the route handler
    isClosed |-> FALSE,        \* SSEConnection.isClosed
    destroyed |-> FALSE,       \* res.destroyed (the transport is gone)
    heartbeat |-> FALSE,       \* SSEConnection.heartbeatInterval is running
    res |-> <<>>,              \* frames written with res.write
    initial |-> NullStatus,    \* the initial getCurrentStatus() being awaited
    fallback |-> FALSE,        \* the route's 5 s heartbeatInterval is running
    events |-> "none",         \* dockerEvents: none, live, destroyed
    tick |-> NoTask,           \* a fallback tick awaiting getCurrentStatus
    ev |-> NoTask,             \* a 'data' handler awaiting getCurrentStatus
    tickedClosed |-> FALSE ]   \* a fallback tick has fired since it closed

\* SSEConnection.isClosed_()
isClosed_(k) == k.isClosed \/ k.destroyed

\* A write that ignores isClosed.
SendAlways(k, frame) == [k EXCEPT !.res = Append(@, frame)]

\* SSEConnection.sendData / sendEvent: nothing is written once closed.
send(k, frame) == IF k.isClosed THEN k ELSE [k EXCEPT !.res = Append(@, frame)]

\* SSEConnection.close(): idempotent; stops the heartbeat, ends the response.
KeepOpen(k) == k

close(k) ==
  IF k.isClosed THEN k ELSE [k EXCEPT !.isClosed = TRUE, !.heartbeat = FALSE]

\* The response that close() ended with res.end() finishes: Node sets
\* res.destroyed and emits 'close' (the connection's own 'close' handler
\* calls close() again, which does nothing).
endFinishes(k) == IF k.isClosed THEN [k EXCEPT !.destroyed = TRUE] ELSE k

StatusInit ==
  /\ engine \in Worlds
  /\ changes = 0
  /\ lastStatus = NullStatus
  /\ sconn = [c \in SConns |-> NewConn]

StatusIdle ==
  /\ engine = CHOOSE w \in Worlds : w.pipeline.Running /\ w.vpn.Health = "healthy"
  /\ changes = 0
  /\ lastStatus = NullStatus
  /\ sconn = [c \in SConns |-> NewConn]

\* A container starts, stops or changes health.
EngineChange ==
  /\ changes < MaxChanges
  /\ engine' \in Worlds \ {engine}
  /\ changes' = changes + 1
  /\ UNCHANGED <<lastStatus, sconn>>
  /\ UNCHANGED notStatus

\* GET /api/status/stream: sseManager.createConnection(res) writes the retry
\* instruction and starts the heartbeat; the handler then calls
\* getCurrentStatus(), whose inspections the engine answers now, and awaits it.
StatusOpen(c) ==
  /\ sconn[c].hpc = "idle"
  /\ sconn' = [sconn EXCEPT ![c] =
       [NewConn EXCEPT !.hpc = "init", !.heartbeat = TRUE, !.res = <<RetryFrame>>,
                       !.initial = getCurrentStatus(engine)]]
  /\ UNCHANGED <<engine, changes, lastStatus>>
  /\ UNCHANGED notStatus

\* The handler's await resumes: the initial status, as the engine answered
\* it, is sent and stored; getDockerEvents is awaited.
StatusInitial(c) ==
  /\ sconn[c].hpc = "init"
  /\ LET initialStatus == sconn[c].initial
     IN /\ sconn' = [sconn EXCEPT ![c] =
                       [send(sconn[c], DataFrame(initialStatus))
                          EXCEPT !.hpc = "sub", !.initial = NullStatus]]
        /\ lastStatus' = initialStatus
  /\ UNCHANGED <<engine, changes>>
  /\ UNCHANGED notStatus

\* getDockerEvents resolves: the 'data' and 'error' handlers, the 5 s
\* interval and the res 'close' cleanup are installed.
StatusSubscribed(c) ==
  /\ sconn[c].hpc = "sub"
  /\ sconn' = [sconn EXCEPT ![c].hpc = "est", ![c].events = "live",
                            ![c].fallback = TRUE]
  /\ UNCHANGED <<engine, changes, lastStatus>>
  /\ UNCHANGED notStatus

\* getDockerEvents throws: catch block, sendError then connection.close(),
\* which ends the response.
StatusSetupFails(c) ==
  /\ sconn[c].hpc = "sub"
  /\ sconn' = [sconn EXCEPT ![c] =
       [close(send(sconn[c], ErrorFrame)) EXCEPT !.hpc = "failed"]]
  /\ UNCHANGED <<engine, changes, lastStatus>>
  /\ UNCHANGED notStatus

\* Later, once the client has taken what was written, the response ended
\* by the catch block finishes (no route cleanup was installed for its
\* 'close').
StatusFinishes(c) ==
  /\ sconn[c].hpc = "failed"
  /\ sconn[c].isClosed /\ ~sconn[c].destroyed
  /\ sconn' = [sconn EXCEPT ![c] = endFinishes(sconn[c])]
  /\ UNCHANGED <<engine, changes, lastStatus>>
  /\ UNCHANGED notStatus

\* What the fallback tick does when it finds the connection closed:
\* clearInterval(heartbeatInterval); dockerEvents.destroy().
ClearOnly(k) == [k EXCEPT !.fallback = FALSE]

releaseOnTick(k) == [k EXCEPT !.fallback = FALSE, !.events = "destroyed"]

\* The client disconnects: res 'close' runs SSEConnection.close() and, once
\* the route has installed it, the cleanup clearInterval + destroy.
StatusClientClose(c) ==
  /\ sconn[c].hpc \in {"init", "sub", "est"}
  /\ ~sconn[c].destroyed
  /\ LET k == [close(sconn[c]) EXCEPT !.destroyed = TRUE]
     IN sconn' = [sconn EXCEPT ![c] =
                    IF sconn[c].hpc = "est"
                    THEN [k EXCEPT !.fallback = FALSE, !.events = "destroyed"]
                    ELSE k]
  /\ UNCHANGED <<engine, changes, lastStatus>>
  /\ UNCHANGED notStatus

\* The 5 s interval fires: released if the connection is closed, else
\* getCurrentStatus() is called and awaited (one tick in flight at a time).
StatusTick(c) ==
  /\ sconn[c].fallback
  /\ isClosed_(sconn[c]) \/ (~sconn[c].tick.active /\ ~sconn[c].ev.active)
  /\ sconn' = [sconn EXCEPT ![c] =
       IF isClosed_(sconn[c])
       THEN [releaseOnTick(sconn[c]) EXCEPT !.tickedClosed = TRUE]
       ELSE [sconn[c] EXCEPT !.tick = [active |-> TRUE, left |-> 1,
                                       status |-> getCurrentStatus(engine)]]]
  /\ UNCHANGED <<engine, changes, lastStatus>>
  /\ UNCHANGED notStatus

\* The tick's await resumes: push and store if different from lastStatus.
StatusTickResume(c) ==
  /\ sconn[c].tick.active
  /\ LET currentStatus == sconn[c].tick.status
         k == [sconn[c] EXCEPT !.tick = NoTask]
     IN IF changed(currentStatus, lastStatus)
        THEN /\ sconn' = [sconn EXCEPT ![c] = send(k, DataFrame(currentStatus))]
             /\ lastStatus' = currentStatus
        ELSE /\ sconn' = [sconn EXCEPT ![c] = k]
             /\ lastStatus' = lastStatus
  /\ UNCHANGED <<engine, changes>>
  /\ UNCHANGED notStatus

\* dockerEvents 'data': a chunk of n event lines; the handler calls
\* getCurrentStatus() for the first one (one chunk in flight at a time).
StatusEvent(c, n) ==
  /\ sconn[c].events = "live"
  /\ ~sconn[c].ev.active /\ ~sconn[c].tick.active
  /\ sconn' = [sconn EXCEPT ![c].ev = [active |-> TRUE, left |-> n,
                                       status |-> getCurrentStatus(engine)]]
  /\ UNCHANGED <<engine, changes, lastStatus>>
  /\ UNCHANGED notStatus

\* The 'data' handler's await resumes: push and store if different, then
\* go on with the next event line of the chunk, if any.
StatusEventResume(c) ==
  /\ sconn[c].ev.active
  /\ LET currentStatus == sconn[c].ev.status
         k == [sconn[c] EXCEPT !.ev =
                 IF sconn[c].ev.left > 1
                 THEN [active |-> TRUE, left |-> sconn[c].ev.left - 1,
                       status |-> getCurrentStatus(engine)]
                 ELSE NoTask]
     IN IF changed(currentStatus, lastStatus)
        THEN /\ sconn' = [sconn EXCEPT ![c] = send(k, DataFrame(currentStatus))]
             /\ lastStatus' = currentStatus
        ELSE /\ sconn' = [sconn EXCEPT ![c] = k]
             /\ lastStatus' = lastStatus
  /\ UNCHANGED <<engine, changes>>
  /\ UNCHANGED notStatus

\* ---- recomputations that overlap on one connection ----

\* The 5 s interval fires while a 'data' handler of the same connection is
\* awaiting getCurrentStatus(): the tick starts its own computation.
StatusTickOverlap(c) ==
  /\ sconn[c].fallback
  /\ ~isClosed_(sconn[c])
  /\ ~sconn[c].tick.active /\ sconn[c].ev.active
  /\ sconn' = [sconn EXCEPT ![c].tick = [active |-> TRUE, left |-> 1,
                                         status |-> getCurrentStatus(engine)]]
  /\ UNCHANGED <<engine, changes, lastStatus>>
  /\ UNCHANGED notStatus

\* dockerEvents 'data' with one event line while a tick of the same
\* connection is awaiting getCurrentStatus().
StatusEventOverlap(c) ==
  /\ sconn[c].events = "live"
  /\ ~sconn[c].ev.active /\ sconn[c].tick.active
  /\ sconn' = [sconn EXCEPT ![c].ev = [active |-> TRUE, left |-> 1,
                                       status |-> getCurrentStatus(engine)]]
  /\ UNCHANGED <<engine, changes, lastStatus>>
  /\ UNCHANGED notStatus

\* ---- the connection's own heartbeat and the error paths of the stream ----
MaxPings == 1
MaxErrors == 1

framesOf(k, type) == Cardinality({i \in 1..Len(k.res) : k.res[i].type = type})

\* SSEConnection.startHeartbeat: the 15 s interval fires on a connection that
\* is not closed and sends `event: ping`.  It runs from construction on,
\* whatever the route handler is awaiting.
StatusPing(c) ==
  /\ sconn[c].heartbeat
  /\ ~sconn[c].isClosed
  /\ framesOf(sconn[c], "ping") < MaxPings
  /\ sconn' = [sconn EXCEPT ![c] = send(sconn[c], PingFrame)]
  /\ UNCHANGED <<engine, changes, lastStatus>>
  /\ UNCHANGED notStatus

\* dockerEvents 'error': sendError('Docker events stream error'); nothing is
\* closed or cleared, and the errored subscription emits no more data.
StatusEventsError(c) ==
  /\ sconn[c].events = "live"
  /\ sconn' = [sconn EXCEPT ![c] =
       [send(sconn[c], ErrorFrame) EXCEPT !.events = "errored"]]
  /\ UNCHANGED <<engine, changes, lastStatus>>
  /\ UNCHANGED notStatus

\* dockerEvents 'data' with a chunk whose first line is not JSON: JSON.parse
\* throws before any await, the catch sends 'Failed to process status update'.
StatusEventMalformed(c) ==
  /\ sconn[c].events = "live"
  /\ framesOf(sconn[c], "error") < MaxErrors
  /\ sconn' = [sconn EXCEPT ![c] = send(sconn[c], ErrorFrame)]
  /\ UNCHANGED <<engine, changes, lastStatus>>
  /\ UNCHANGED notStatus

(***************************************************************************)
(* STATUS SNAPSHOT                                                         *)
(* GET /api/status: one getCurrentStatus() over whatever the engine        *)
(* answers for the three containers.                                       *)
(***************************************************************************)
Container(reach, run, health, started, finished, env) ==
  [ reachable |-> reach, Running |-> run, Health |-> health,
    StartedAt |-> started, FinishedAt |-> finished, Env |-> env ]

CleanJobs(n) == [key |-> "CLEAN_JOBS", nan |-> FALSE, value |-> n]
CleanJobsNaN == [key |-> "CLEAN_JOBS", nan |-> TRUE, value |-> 0]
OtherVar == [key |-> "PATH", nan |-> TRUE, value |-> 0]

Envs ==
  { <<>>, <<CleanJobs(4)>>, <<OtherVar, CleanJobs(4)>>, <<CleanJobsNaN, CleanJobs(4)>> }

Healths == {"", "healthy", "unhealthy", "starting"}

PipelineProbes ==
  { Container(r, run, "", s, f, env) :
      r \in BOOLEAN, run \in BOOLEAN, s \in {"", "t1"}, f \in {"", "t2"}, env \in Envs }

VpnProbes == { Container(r, run, h, "t1", "", <<>>) : r \in BOOLEAN, run \in BOOLEAN, h \in Healths }

TorProbes ==
  { Container(r, run, h, "t1", "", <<>>) :
      r \in BOOLEAN, run \in BOOLEAN, h \in {"", "unhealthy"} }

Probes ==
  { [pipeline |-> p, vpn |-> v, tor |-> t, envOk |-> ok] :
      p \in PipelineProbes, v \in VpnProbes, t \in TorProbes, ok \in BOOLEAN }

NoAnswer == [kind |-> "none", status |-> NullStatus]

SnapshotInit ==
  /\ probe \in Probes
  /\ answer = NoAnswer

SnapshotIdle ==
  /\ probe = [pipeline |-> PipelineRunning, vpn |-> Up("healthy"), tor |-> Up(""),
              envOk |-> TRUE]
  /\ answer = NoAnswer

\* GET /api/status: `res.json(await getCurrentStatus())`.
GetStatus ==
  /\ answer.kind = "none"
  /\ answer' = [kind |-> "json", status |-> getCurrentStatusEnv(probe, probe.envOk)]
  /\ UNCHANGED probe
  /\ UNCHANGED notSnapshot

(***************************************************************************)
(* LOG STREAM                                                              *)
(* GET /api/logs/stream: one SSEConnection, one upstream logStream and one *)
(* 30 s interval per connection.  What a chunk is framed into is           *)
(* processLogData above; here a chunk delivers n log entries.              *)
(***************************************************************************)
MaxSent == 3

LConns == {1, 2}

LogFrame == [type |-> "log", data |-> NullStatus]
InfoFrame == [type |-> "info", data |-> NullStatus]
HeartbeatFrame == [type |-> "heartbeat", data |-> NullStatus]

NewLogConn ==
  [ hpc |-> "idle",          \* position of the route handler
    isClosed |-> FALSE,      \* SSEConnection.isClosed
    destroyed |-> FALSE,     \* res.destroyed
    heartbeat |-> FALSE,     \* SSEConnection.heartbeatInterval is running
    res |-> <<>>,            \* frames written with res.write
    routeTimer |-> FALSE,    \* the route's 30 s heartbeatInterval is running
    logStream |-> "none" ]   \* none, live, ended, errored, destroyed

RECURSIVE sendAll(_, _, _)
sendAll(k, frame, n) == IF n = 0 THEN k ELSE sendAll(send(k, frame), frame, n - 1)

\* Room left in the recorded transport output (a closed connection writes
\* nothing, so it always has room).
CanWrite(k, n) == k.isClosed \/ Len(k.res) + n <= MaxSent

LogsInit == lconn = [c \in LConns |-> NewLogConn]

LogsIdle == lconn = [c \in LConns |-> NewLogConn]

\* createConnection(res); the handler awaits getContainerLogs(.., true, 200).
LogsOpen(c) ==
  /\ lconn[c].hpc = "idle"
  /\ lconn' = [lconn EXCEPT ![c] =
       [NewLogConn EXCEPT !.hpc = "pending", !.heartbeat = TRUE,
                          !.res = <<RetryFrame>>]]
  /\ UNCHANGED notLogs

\* getContainerLogs resolves with the followed stream: 'data', 'end' and
\* 'error' handlers, both res 'close' handlers and the 30 s interval are
\* installed.
LogsResolved(c) ==
  /\ lconn[c].hpc = "pending"
  /\ lconn' = [lconn EXCEPT ![c].hpc = "est", ![c].logStream = "live",
                            ![c].routeTimer = TRUE]
  /\ UNCHANGED notLogs

\* getContainerLogs throws: catch block, sendError then connection.close(),
\* which ends the response.
LogsRejected(c) ==
  /\ lconn[c].hpc = "pending"
  /\ lconn' = [lconn EXCEPT ![c] =
       [close(send(lconn[c], ErrorFrame)) EXCEPT !.hpc = "failed"]]
  /\ UNCHANGED notLogs

\* Later the response ended by the catch block finishes (no route handler
\* was installed for its 'close').
LogsFinishes(c) ==
  /\ lconn[c].hpc = "failed"
  /\ lconn[c].isClosed /\ ~lconn[c].destroyed
  /\ lconn' = [lconn EXCEPT ![c] = endFinishes(lconn[c])]
  /\ UNCHANGED notLogs

\* if (!logStream.destroyed) logStream.destroy()
destroyStream(k) ==
  IF k.logStream = "live" \/ k.logStream = "ended"
  THEN [k EXCEPT !.logStream = "destroyed"] ELSE k

\* The client disconnects: res 'close' runs SSEConnection.close() and the
\* route's close handlers if they are installed by then.
LogsClientClose(c) ==
  /\ lconn[c].hpc \in {"pending", "est"}
  /\ ~lconn[c].destroyed
  /\ LET k == [close(lconn[c]) EXCEPT !.destroyed = TRUE]
     IN lconn' = [lconn EXCEPT ![c] =
                    IF lconn[c].hpc = "est"
                    THEN [destroyStream(k) EXCEPT !.routeTimer = FALSE]
                    ELSE k]
  /\ UNCHANGED notLogs

\* The 30 s interval fires: it clears itself if the connection is closed,
\* else it sends the idle heartbeat.
LogsTick(c) ==
  /\ lconn[c].routeTimer
  /\ isClosed_(lconn[c]) \/ CanWrite(lconn[c], 1)
  /\ lconn' = [lconn EXCEPT ![c] =
       IF isClosed_(lconn[c])
       THEN [lconn[c] EXCEPT !.routeTimer = FALSE]
       ELSE send(lconn[c], HeartbeatFrame)]
  /\ UNCHANGED notLogs

\* The SSEConnection's 15 s interval fires on an open connection.
LogsPing(c) ==
  /\ lconn[c].heartbeat
  /\ ~lconn[c].isClosed
  /\ CanWrite(lconn[c], 1)
  /\ lconn' = [lconn EXCEPT ![c] = send(lconn[c], PingFrame)]
  /\ UNCHANGED notLogs

\* logStream 'data': the chunk completes n log entries, each sent.
LogsData(c, n) ==
  /\ lconn[c].logStream = "live"
  /\ CanWrite(lconn[c], n)
  /\ lconn' = [lconn EXCEPT ![c] = sendAll(lconn[c], LogFrame, n)]
  /\ UNCHANGED notLogs

\* logStream 'end': the connection is kept open and told so.
LogsEnd(c) ==
  /\ lconn[c].logStream = "live"
  /\ CanWrite(lconn[c], 1)
  /\ lconn' = [lconn EXCEPT ![c] =
       [send(lconn[c], InfoFrame) EXCEPT !.logStream = "ended"]]
  /\ UNCHANGED notLogs

\* logStream 'error': reported to the connection.
LogsError(c) ==
  /\ lconn[c].logStream = "live"
  /\ CanWrite(lconn[c], 1)
  /\ lconn' = [lconn EXCEPT ![c] =
       [send(lconn[c], ErrorFrame) EXCEPT !.logStream = "errored"]]
  /\ UNCHANGED notLogs

(***************************************************************************)
(* PUSH CONNECTIONS                                                        *)
(* SSEConnection and SSEManager on their own: a registry of connections,   *)
(* the triggers that close a connection, and the two broadcasts.  A write  *)
(* is told whether it throws: fail = 0 for no, 1 for the first res.write   *)
(* of the call, 2 for the second one of sendEvent.                         *)
(***************************************************************************)
MaxPush == 2

PConns == {1, 2}

FailAt == 0..2

NewPush ==
  [ created |-> FALSE,      \* createConnection has been called for it
    isClosed |-> FALSE,     \* SSEConnection.isClosed
    destroyed |-> FALSE,    \* res.destroyed
    closeFired |-> FALSE,   \* res has emitted 'close'
    errFired |-> FALSE,     \* res has emitted 'error'
    heartbeat |-> FALSE,    \* the 15 s interval is running
    cleared |-> 0,          \* clearInterval calls on that interval
    ended |-> 0,            \* res.end() calls
    sent |-> 0,             \* frames written whole after the retry instruction
    torn |-> FALSE ]        \* an `event:` line was written without its data line

\* SSEConnection.close()
CloseUnguarded(k) ==
  [k EXCEPT !.isClosed = TRUE, !.heartbeat = FALSE, !.cleared = @ + 1,
            !.ended = IF k.destroyed THEN @ ELSE @ + 1]

SSEClose(k) ==
  IF k.isClosed THEN k
  ELSE [k EXCEPT !.isClosed = TRUE, !.heartbeat = FALSE, !.cleared = @ + 1,
                 !.ended = IF k.destroyed THEN @ ELSE @ + 1]

\* SSEConnection.sendData: one res.write inside try/catch.
sendData(k, fail) ==
  IF k.isClosed THEN k
  ELSE IF fail # 0 THEN SSEClose(k)
  ELSE [k EXCEPT !.sent = @ + 1]

\* SSEConnection.sendEvent: two res.write inside try/catch.
sendEvent(k, fail) ==
  IF k.isClosed THEN k
  ELSE IF fail = 1 THEN SSEClose(k)
  ELSE IF fail = 2 THEN SSEClose([k EXCEPT !.torn = TRUE])
  ELSE [k EXCEPT !.sent = @ + 1]

\* A delete that drops the oldest entry instead of the one asked for.
RemoveOldest(reg, id) == IF reg = <<>> THEN reg ELSE Tail(reg)

\* Map.delete(id)
remove(reg, id) == SelectSeq(reg, LAMBDA x : x # id)

\* What is left of the iteration after a send: the catch inside
\* sendData/sendEvent swallows the failure, so the loop goes on.
StopOnFailure(rest, fail) == IF fail # 0 THEN <<>> ELSE rest

continueAfter(rest, fail) == rest

\* for (const [id, connection] of this.connections) of broadcast (isEvent)
\* and broadcastData: closed entries are deleted, the others are sent to.
RECURSIVE broadcastLoop(_, _, _, _, _)
broadcastLoop(ids, conns, reg, f, isEvent) ==
  IF ids = <<>> THEN [conns |-> conns, reg |-> reg]
  ELSE LET id == Head(ids)
       IN IF isClosed_(conns[id])
          THEN broadcastLoop(Tail(ids), conns, remove(reg, id), f, isEvent)
          ELSE broadcastLoop(continueAfter(Tail(ids), f[id]),
                 [conns EXCEPT ![id] = IF isEvent THEN sendEvent(conns[id], f[id])
                                       ELSE sendData(conns[id], f[id])],
                 reg, f, isEvent)

\* Room for one more frame on every connection a broadcast would write to.
PushRoom(k) == k.isClosed \/ k.sent < MaxPush

\* The ghost record of a broadcast: which connections were open when it ran,
\* on which of them the write failed, which registered ones were closed.
NoFan == [ran |-> FALSE, open |-> {}, failed |-> {}, closed |-> {}]

IsOpen(k) == k.created /\ ~isClosed_(k)

IsRegistered(c) == \E i \in 1..Len(registry) : registry[i] = c

PushInit ==
  /\ pconn = [c \in PConns |-> NewPush]
  /\ registry = <<>>
  /\ fan = NoFan

PushIdle ==
  /\ pconn = [c \in PConns |-> NewPush]
  /\ registry = <<>>
  /\ fan = NoFan

\* SSEManager.createConnection: the constructor writes the head and the
\* retry instruction, installs the 'close' and 'error' handlers and starts
\* the heartbeat; the manager registers it and its own 'close' handler.
PushCreate(c) ==
  /\ ~pconn[c].created
  /\ pconn' = [pconn EXCEPT ![c] = [NewPush EXCEPT !.created = TRUE, !.heartbeat = TRUE]]
  /\ registry' = Append(registry, c)
  /\ fan' = NoFan
  /\ UNCHANGED notPush

\* The transport goes away (client disconnect, or the socket finishing after
\* res.end()): res.destroyed becomes true; 'close' is emitted later.
PushDestroy(c) ==
  /\ pconn[c].created /\ ~pconn[c].destroyed
  /\ pconn' = [pconn EXCEPT ![c].destroyed = TRUE]
  /\ UNCHANGED registry
  /\ fan' = NoFan
  /\ UNCHANGED notPush

\* res 'close': SSEConnection's handler calls close(), the manager's handler
\* deletes the id.
PushCloseEvent(c) ==
  /\ pconn[c].destroyed /\ ~pconn[c].closeFired
  /\ pconn' = [pconn EXCEPT ![c] = [SSEClose(pconn[c]) EXCEPT !.closeFired = TRUE]]
  /\ registry' = remove(registry, c)
  /\ fan' = NoFan
  /\ UNCHANGED notPush

\* res 'error': SSEConnection's handler calls close().
PushErrorEvent(c) ==
  /\ pconn[c].created /\ ~pconn[c].closeFired /\ ~pconn[c].errFired
  /\ pconn' = [pconn EXCEPT ![c] = [SSEClose(pconn[c]) EXCEPT !.errFired = TRUE]]
  /\ UNCHANGED registry
  /\ fan' = NoFan
  /\ UNCHANGED notPush

\* The owner calls connection.close().
PushClose(c) ==
  /\ pconn[c].created
  /\ pconn' = [pconn EXCEPT ![c] = SSEClose(pconn[c])]
  /\ UNCHANGED registry
  /\ fan' = NoFan
  /\ UNCHANGED notPush

\* The owner calls connection.sendData(..).
PushSendData(c, fail) ==
  /\ pconn[c].created /\ PushRoom(pconn[c])
  /\ pconn' = [pconn EXCEPT ![c] = sendData(pconn[c], fail)]
  /\ UNCHANGED registry
  /\ fan' = NoFan
  /\ UNCHANGED notPush

\* The owner calls connection.sendEvent(..) or sendError(..).
PushSendEvent(c, fail) ==
  /\ pconn[c].created /\ PushRoom(pconn[c])
  /\ pconn' = [pconn EXCEPT ![c] = sendEvent(pconn[c], fail)]
  /\ UNCHANGED registry
  /\ fan' = NoFan
  /\ UNCHANGED notPush

\* The 15 s interval fires: a ping unless the connection is closed.
PushHeartbeat(c, fail) ==
  /\ pconn[c].heartbeat /\ PushRoom(pconn[c])
  /\ pconn' = [pconn EXCEPT ![c] =
       IF ~pconn[c].isClosed THEN sendEvent(pconn[c], fail) ELSE pconn[c]]
  /\ UNCHANGED registry
  /\ fan' = NoFan
  /\ UNCHANGED notPush

\* SSEManager.broadcast(event, data)
Broadcast(f) ==
  /\ \A c \in PConns : PushRoom(pconn[c])
  /\ LET r == broadcastLoop(registry, pconn, registry, f, TRUE)
     IN pconn' = r.conns /\ registry' = r.reg
  /\ fan' = [ran |-> TRUE, open |-> {c \in PConns : IsOpen(pconn[c])},
             failed |-> {c \in PConns : IsOpen(pconn[c]) /\ f[c] # 0},
             closed |-> {c \in PConns : IsRegistered(c) /\ ~IsOpen(pconn[c])}]
  /\ UNCHANGED notPush

\* SSEManager.broadcastData(data)
BroadcastData(f) ==
  /\ \A c \in PConns : PushRoom(pconn[c])
  /\ LET r == broadcastLoop(registry, pconn, registry, f, FALSE)
     IN pconn' = r.conns /\ registry' = r.reg
  /\ fan' = [ran |-> TRUE, open |-> {c \in PConns : IsOpen(pconn[c])},
             failed |-> {c \in PConns : IsOpen(pconn[c]) /\ f[c] # 0},
             closed |-> {c \in PConns : IsRegistered(c) /\ ~IsOpen(pconn[c])}]
  /\ UNCHANGED notPush

\* The loop of getActiveConnections: closed entries are deleted.
RECURSIVE cleanup(_, _, _)
cleanup(ids, conns, reg) ==
  IF ids = <<>> THEN reg
  ELSE cleanup(Tail(ids), conns,
               IF isClosed_(conns[Head(ids)]) THEN remove(reg, Head(ids)) ELSE reg)

\* What getActiveConnections() returns: this.connections.size after the loop.
getActiveConnections(reg, conns) == Len(cleanup(reg, conns, reg))

\* SSEManager.getActiveConnections(): closed entries are deleted.
GetActiveConnections ==
  /\ registry' = cleanup(registry, pconn, registry)
  /\ UNCHANGED pconn
  /\ fan' = NoFan
  /\ UNCHANGED notPush

\* SSEManager.closeAll(): every registered connection is closed, the map cleared.
CloseAll ==
  /\ pconn' = [c \in PConns |->
       IF IsRegistered(c) THEN SSEClose(pconn[c]) ELSE pconn[c]]
  /\ registry' = <<>>
  /\ fan' = NoFan
  /\ UNCHANGED notPush

(***************************************************************************)
(* PIPELINE CONTROL                                                        *)
(* POST /api/pipeline/start and /stop.  A request may name any container   *)
(* in its body or query; the engine may refuse the inspect or the          *)
(* start/stop itself.  A handler is suspended while the engine answers its *)
(* inspect and again while it answers the start/stop, so requests overlap  *)
(* and the container can change meanwhile.                                 *)
(***************************************************************************)
pipelineContainer == "media-pipeline"
gluetunContainer == "gluetun"
torContainer == "torproxy"

ContainerNames == {pipelineContainer, gluetunContainer, torContainer, "other"}

\* What a request names as its target ("" when it names nothing).
Named == ContainerNames \cup {""}

NoReply == [path |-> "none", named |-> "", status |-> 0, code |-> "none"]

\* validateContainer
validateContainer(containerName) == containerName = pipelineContainer

\* The name the handler validates and the name it passes to
\* dockerService.startContainer / stopContainer: config.pipelineContainer
\* both times, whatever the request names.
NamedByRequest(named) == IF named # "" THEN named ELSE pipelineContainer

validatedName(named) == pipelineContainer

engineTarget(named) == pipelineContainer

\* container.stop({ t: 10 }): the grace period, in seconds.
stopGrace == 10

\* A start (or stop) issued whatever the inspection reports.
Unconditional(isRunning) == TRUE

\* startContainer: `if (!info.State.Running)`; stopContainer: `if (info.State.Running)`.
startNeeded(isRunning) == ~isRunning

stopNeeded(isRunning) == isRunning

\* Requests that can be in flight together.
Reqs == {1, 2}

\* What a request names in the specifications: nothing, the pipeline
\* container, or another container.
RequestNames == {"", pipelineContainer, gluetunContainer}

\* A request in flight: its route, what it names, what the inspection
\* answered, and its engine call: "none" before container.start()/stop() is
\* called, then "pending" until the engine has carried it out, then "done".
NoRequest == [path |-> "none", named |-> "", Running |-> FALSE, call |-> "none"]

PipelineInit ==
  /\ running \in [ContainerNames -> BOOLEAN]
  /\ calls = {}
  /\ reply = NoReply
  /\ inflight = [r \in Reqs |-> NoRequest]

PipelineIdle ==
  /\ running = [n \in ContainerNames |-> TRUE]
  /\ calls = {}
  /\ reply = NoReply
  /\ inflight = [r \in Reqs |-> NoRequest]

\* A container starts or stops outside the API.
ContainerFlips(n) ==
  /\ running' = [running EXCEPT ![n] = ~@]
  /\ UNCHANGED <<calls, reply, inflight>>
  /\ UNCHANGED notPipeline

\* A request reaches its handler: validateContainer, then startContainer or
\* stopContainer calls container.inspect(), which the engine answers with
\* the container's State.Running of now, and awaits the answer.
Received(r, path, named) ==
  /\ inflight[r] = NoRequest
  /\ IF ~validateContainer(validatedName(named))
     THEN /\ reply' = [path |-> path, named |-> named, status |-> 403, code |-> "FORBIDDEN"]
          /\ UNCHANGED <<running, calls, inflight>>
     ELSE /\ inflight' = [inflight EXCEPT ![r] =
                            [path |-> path, named |-> named,
                             Running |-> running[engineTarget(named)],
                             call |-> "none"]]
          /\ UNCHANGED <<running, calls, reply>>
  /\ UNCHANGED notPipeline

\* POST /api/pipeline/start, up to `await container.inspect()`.
PipelineStart(r, named) == Received(r, "start", named)

\* POST /api/pipeline/stop, up to `await container.inspect()`.
PipelineStop(r, named) == Received(r, "stop", named)

\* The inspect answer arrives.  A failed inspect is answered 503
\* DOCKER_ERROR; if the answer says the container is running, the request
\* is answered ok and nothing more is asked of the engine; otherwise
\* container.start() is called, whatever the container does by now, and the
\* handler awaits it.  The engine carries the call out at once (actsNow) or
\* by the time it answers.  (An engine call is recorded with its grace
\* period, 0 for a start, which takes none.)
PipelineStartResume(r, inspectOk, actsNow) ==
  /\ inflight[r].path = "start" /\ inflight[r].call = "none"
  /\ LET named == inflight[r].named
         target == engineTarget(named)
     IN IF inspectOk /\ startNeeded(inflight[r].Running)
        THEN /\ calls' = calls \cup {[op |-> "start", name |-> target, t |-> 0]}
             /\ running' = IF actsNow THEN [running EXCEPT ![target] = TRUE] ELSE running
             /\ inflight' = [inflight EXCEPT ![r].call = IF actsNow THEN "done" ELSE "pending"]
             /\ reply' = reply
        ELSE /\ reply' = IF inspectOk
                         THEN [path |-> "start", named |-> named, status |-> 200, code |-> "ok"]
                         ELSE [path |-> "start", named |-> named, status |-> 503, code |-> "DOCKER_ERROR"]
             /\ inflight' = [inflight EXCEPT ![r] = NoRequest]
             /\ UNCHANGED <<running, calls>>
  /\ UNCHANGED notPipeline

\* `await container.start()` resumes: the engine has started the container
\* and the route answers {ok: true}, or it refuses and the route answers
\* 503 DOCKER_ERROR.
PipelineStartAnswered(r, startOk) ==
  /\ inflight[r].path = "start" /\ inflight[r].call # "none"
  /\ LET named == inflight[r].named
         target == engineTarget(named)
     IN /\ running' = IF startOk /\ inflight[r].call = "pending"
                       THEN [running EXCEPT ![target] = TRUE] ELSE running
        /\ reply' = IF startOk
                    THEN [path |-> "start", named |-> named, status |-> 200, code |-> "ok"]
                    ELSE [path |-> "start", named |-> named, status |-> 503, code |-> "DOCKER_ERROR"]
  /\ inflight' = [inflight EXCEPT ![r] = NoRequest]
  /\ UNCHANGED calls
  /\ UNCHANGED notPipeline

\* The same for stopContainer, which calls stop({ t: 10 }) if the answer
\* says the container is running, and awaits it.
PipelineStopResume(r, inspectOk, actsNow) ==
  /\ inflight[r].path = "stop" /\ inflight[r].call = "none"
  /\ LET named == inflight[r].named
         target == engineTarget(named)
     IN IF inspectOk /\ stopNeeded(inflight[r].Running)
        THEN /\ calls' = calls \cup {[op |-> "stop", name |-> target, t |-> stopGrace]}
             /\ running' = IF actsNow THEN [running EXCEPT ![target] = FALSE] ELSE running
             /\ inflight' = [inflight EXCEPT ![r].call = IF actsNow THEN "done" ELSE "pending"]
             /\ reply' = reply
        ELSE /\ reply' = IF inspectOk
                         THEN [path |-> "stop", named |-> named, status |-> 200, code |-> "ok"]
                         ELSE [path |-> "stop", named |-> named, status |-> 503, code |-> "DOCKER_ERROR"]
             /\ inflight' = [inflight EXCEPT ![r] = NoRequest]
             /\ UNCHANGED <<running, calls>>
  /\ UNCHANGED notPipeline

\* `await container.stop({ t: 10 })` resumes.
PipelineStopAnswered(r, stopOk) ==
  /\ inflight[r].path = "stop" /\ inflight[r].call # "none"
  /\ LET named == inflight[r].named
         target == engineTarget(named)
     IN /\ running' = IF stopOk /\ inflight[r].call = "pending"
                       THEN [running EXCEPT ![target] = FALSE] ELSE running
        /\ reply' = IF stopOk
                    THEN [path |-> "stop", named |-> named, status |-> 200, code |-> "ok"]
                    ELSE [path |-> "stop", named |-> named, status |-> 503, code |-> "DOCKER_ERROR"]
  /\ inflight' = [inflight EXCEPT ![r] = NoRequest]
  /\ UNCHANGED calls
  /\ UNCHANGED notPipeline

(***************************************************************************)
(* Specifications                                                          *)
(***************************************************************************)
\* The log framer fed by 'data' events of any chunking.
InitF == FramerInit /\ LinksIdle /\ StatusIdle /\ LogsIdle /\ SnapshotIdle /\ PushIdle /\ PipelineIdle /\ RoutesIdle /\ AuthIdle
NextF == OnLogData
SpecFramer == InitF /\ [][NextF]_vars

\* Single writer: calls are made one after the other.
InitL == LinksInit /\ FramerIdle /\ StatusIdle /\ LogsIdle /\ SnapshotIdle /\ PushIdle /\ PipelineIdle /\ RoutesIdle /\ AuthIdle
NextL ==
  \/ \E o \in Ops : Call(1, o)
  \/ ReadLinks(1)
  \/ ReadCurrent(1)
  \/ ReadCurrentFails(1)
  \/ OpenTemp(1)
  \/ WriteChunk(1)
  \/ CloseTemp(1)
  \/ WriteFileFails(1)
  \/ Rename(1)
  \/ RenameFails(1)
  \/ Unlink(1)
  \/ UnlinkFails(1)
  \/ Return(1)
  \/ Crash
SpecLinks == InitL /\ [][NextL]_vars

\* Concurrent writers: each of two requests makes one call; the calls
\* interleave at their suspension points.
NextLC ==
  \/ \E p \in Procs, o \in Ops : Call(p, o)
  \/ \E p \in Procs : ReadLinks(p)
  \/ \E p \in Procs : ReadCurrent(p)
  \/ \E p \in Procs : ReadCurrentFails(p)
  \/ \E p \in Procs : OpenTemp(p)
  \/ \E p \in Procs : WriteChunk(p)
  \/ \E p \in Procs : CloseTemp(p)
  \/ \E p \in Procs : WriteFileFails(p)
  \/ \E p \in Procs : Rename(p)
  \/ \E p \in Procs : RenameFails(p)
  \/ \E p \in Procs : Unlink(p)
  \/ \E p \in Procs : UnlinkFails(p)
SpecLinksConc == InitL /\ [][NextLC]_vars

\* The mutations made next to a listing: an add of either URL and the
\* remove of one.
ListedOps ==
  { o \in Ops : \/ (o.kind = "add" /\ o.url \in {UrlA, UrlB})
               \/ (o.kind = "remove" /\ o.id = generateId(UrlA)) }

\* One request that mutates the store and one that lists it, with reads
\* that can fail.
NextLR ==
  \/ \E o \in ListedOps : Call(1, o)
  \/ \E fault \in ReadFaults : ListLinks(2, fault)
  \/ ListStat(2)
  \/ ReadLinks(1)
  \/ ReadLinksFails(1)
  \/ ReadCurrent(1)
  \/ ReadCurrentFails(1)
  \/ OpenTemp(1)
  \/ WriteChunk(1)
  \/ CloseTemp(1)
  \/ WriteFileFails(1)
  \/ Rename(1)
  \/ RenameFails(1)
  \/ Unlink(1)
  \/ UnlinkFails(1)
  \/ Return(1)
SpecLinksRead == InitL /\ [][NextLR]_vars

\* Status streaming connections over a changing engine state.
InitS == StatusInit /\ FramerIdle /\ LinksIdle /\ LogsIdle /\ SnapshotIdle /\ PushIdle /\ PipelineIdle /\ RoutesIdle /\ AuthIdle
NextS ==
  \/ EngineChange
  \/ \E c \in SConns : StatusOpen(c)
  \/ \E c \in SConns : StatusInitial(c)
  \/ \E c \in SConns : StatusSubscribed(c)
  \/ \E c \in SConns : StatusSetupFails(c)
  \/ \E c \in SConns : StatusFinishes(c)
  \/ \E c \in SConns : StatusClientClose(c)
  \/ \E c \in SConns : StatusTick(c)
  \/ \E c \in SConns : StatusTickResume(c)
  \/ \E c \in SConns, n \in ChunkSizes : StatusEvent(c, n)
  \/ \E c \in SConns : StatusEventResume(c)
SpecStatus == InitS /\ [][NextS]_vars

\* Log streaming connections.  The fair specification lets every awaited
\* getContainerLogs settle and every running 30 s interval fire; what the
\* client and the container do is not forced.
InitLg == LogsInit /\ FramerIdle /\ LinksIdle /\ StatusIdle /\ SnapshotIdle /\ PushIdle /\ PipelineIdle /\ RoutesIdle /\ AuthIdle
NextLg ==
  \/ \E c \in LConns : LogsOpen(c)
  \/ \E c \in LConns : LogsResolved(c)
  \/ \E c \in LConns : LogsRejected(c)
  \/ \E c \in LConns : LogsFinishes(c)
  \/ \E c \in LConns : LogsClientClose(c)
  \/ \E c \in LConns : LogsTick(c)
  \/ \E c \in LConns : LogsPing(c)
  \/ \E c \in LConns, n \in 0..1 : LogsData(c, n)
  \/ \E c \in LConns : LogsEnd(c)
  \/ \E c \in LConns : LogsError(c)
SpecLogs ==
  /\ InitLg /\ [][NextLg]_vars
  /\ \A c \in LConns : WF_vars(LogsResolved(c) \/ LogsRejected(c))
  /\ \A c \in LConns : WF_vars(LogsTick(c))

\* One status snapshot request over every answer of the engine.
InitP == SnapshotInit /\ FramerIdle /\ LinksIdle /\ StatusIdle /\ LogsIdle /\ PushIdle /\ PipelineIdle /\ RoutesIdle /\ AuthIdle
NextP == GetStatus
SpecSnapshot == InitP /\ [][NextP]_vars

\* The same with the scheduling the runtime gives: an awaited engine call
\* settles, a resumed handler runs, and a running interval fires again and
\* again even if event handlers keep being in progress in between (strong
\* fairness).  Clients, engine events and engine state changes are not forced.
SpecStatusFair ==
  /\ InitS /\ [][NextS]_vars
  /\ \A c \in SConns : WF_vars(StatusInitial(c))
  /\ \A c \in SConns : WF_vars(StatusSubscribed(c) \/ StatusSetupFails(c))
  /\ \A c \in SConns : SF_vars(StatusTick(c))
  /\ \A c \in SConns : WF_vars(StatusTickResume(c))
  /\ \A c \in SConns : WF_vars(StatusEventResume(c))

\* One status connection and one log connection with every timer and every
\* error path of the two routes: the connection's own 15 s ping, an errored
\* event subscription and an event chunk that does not parse.
StreamOne == {1}
NextSt ==
  \/ EngineChange
  \/ \E c \in StreamOne : StatusOpen(c)
  \/ \E c \in StreamOne : StatusInitial(c)
  \/ \E c \in StreamOne : StatusSubscribed(c)
  \/ \E c \in StreamOne : StatusSetupFails(c)
  \/ \E c \in StreamOne : StatusFinishes(c)
  \/ \E c \in StreamOne : StatusClientClose(c)
  \/ \E c \in StreamOne : StatusTick(c)
  \/ \E c \in StreamOne : StatusTickResume(c)
  \/ \E c \in StreamOne, n \in ChunkSizes : StatusEvent(c, n)
  \/ \E c \in StreamOne : StatusEventResume(c)
  \/ \E c \in StreamOne : StatusPing(c)
  \/ \E c \in StreamOne : StatusEventsError(c)
  \/ \E c \in StreamOne : StatusEventMalformed(c)
SpecStreams == InitS /\ [][NextSt]_vars

\* One status connection and one log connection side by side, over an engine
\* whose containers do not change state meanwhile: every handler, timer and
\* error path of both stream routes.
NextSu ==
  \/ \E c \in StreamOne : StatusOpen(c)
  \/ \E c \in StreamOne : StatusInitial(c)
  \/ \E c \in StreamOne : StatusSubscribed(c)
  \/ \E c \in StreamOne : StatusSetupFails(c)
  \/ \E c \in StreamOne : StatusFinishes(c)
  \/ \E c \in StreamOne : StatusClientClose(c)
  \/ \E c \in StreamOne : StatusTick(c)
  \/ \E c \in StreamOne : StatusTickResume(c)
  \/ \E c \in StreamOne : StatusEvent(c, 1)
  \/ \E c \in StreamOne : StatusEventResume(c)
  \/ \E c \in StreamOne : StatusPing(c)
  \/ \E c \in StreamOne : StatusEventsError(c)
  \/ \E c \in StreamOne : StatusEventMalformed(c)
  \/ \E c \in StreamOne : LogsOpen(c)
  \/ \E c \in StreamOne : LogsResolved(c)
  \/ \E c \in StreamOne : LogsRejected(c)
  \/ \E c \in StreamOne : LogsFinishes(c)
  \/ \E c \in StreamOne : LogsClientClose(c)
  \/ \E c \in StreamOne : LogsTick(c)
  \/ \E c \in StreamOne : LogsPing(c)
  \/ \E c \in StreamOne, n \in 0..1 : LogsData(c, n)
  \/ \E c \in StreamOne : LogsEnd(c)
  \/ \E c \in StreamOne : LogsError(c)
SpecSetup == InitS /\ [][NextSu]_vars

\* One client connection, to the status stream or to the log stream, over a
\* changing engine state: every handler and timer that can write to it.
\* Heartbeats and malformed chunks are taken while fewer than MaxSent frames
\* have been written, which bounds the transport output that is recorded.
NextOne ==
  \/ EngineChange
  \/ \E c \in StreamOne : StatusOpen(c) /\ lconn[c].hpc = "idle"
  \/ \E c \in StreamOne : StatusInitial(c)
  \/ \E c \in StreamOne : StatusSubscribed(c)
  \/ \E c \in StreamOne : StatusSetupFails(c)
  \/ \E c \in StreamOne : StatusFinishes(c)
  \/ \E c \in StreamOne : StatusClientClose(c)
  \/ \E c \in StreamOne : StatusTick(c)
  \/ \E c \in StreamOne : StatusTickOverlap(c)
  \/ \E c \in StreamOne : StatusTickResume(c)
  \/ \E c \in StreamOne, n \in ChunkSizes : StatusEvent(c, n)
  \/ \E c \in StreamOne : StatusEventOverlap(c)
  \/ \E c \in StreamOne : StatusEventResume(c)
  \/ \E c \in StreamOne : StatusPing(c) /\ Len(sconn[c].res) < MaxSent
  \/ \E c \in StreamOne : StatusEventsError(c)
  \/ \E c \in StreamOne : StatusEventMalformed(c) /\ Len(sconn[c].res) < MaxSent
  \/ \E c \in StreamOne : LogsOpen(c) /\ sconn[c].hpc = "idle"
  \/ \E c \in StreamOne : LogsResolved(c)
  \/ \E c \in StreamOne : LogsRejected(c)
  \/ \E c \in StreamOne : LogsFinishes(c)
  \/ \E c \in StreamOne : LogsClientClose(c)
  \/ \E c \in StreamOne : LogsTick(c)
  \/ \E c \in StreamOne : LogsPing(c)
  \/ \E c \in StreamOne, n \in 0..2 : LogsData(c, n)
  \/ \E c \in StreamOne : LogsEnd(c)
  \/ \E c \in StreamOne : LogsError(c)
SpecOneStream == InitS /\ [][NextOne]_vars

\* One status connection whose event handler and fallback tick can be
\* awaiting their inspections at the same time, and resume in either order.
NextOv ==
  \/ EngineChange
  \/ \E c \in StreamOne : StatusOpen(c)
  \/ \E c \in StreamOne : StatusInitial(c)
  \/ \E c \in StreamOne : StatusSubscribed(c)
  \/ \E c \in StreamOne : StatusClientClose(c)
  \/ \E c \in StreamOne : StatusTick(c)
  \/ \E c \in StreamOne : StatusTickOverlap(c)
  \/ \E c \in StreamOne : StatusTickResume(c)
  \/ \E c \in StreamOne : StatusEvent(c, 1)
  \/ \E c \in StreamOne : StatusEventOverlap(c)
  \/ \E c \in StreamOne : StatusEventResume(c)
SpecOverlap == InitS /\ [][NextOv]_vars

\* Status connections whose event subscription can fail, with the scheduling
\* of SpecStatusFair.
NextSE ==
  \/ EngineChange
  \/ \E c \in SConns : StatusOpen(c)
  \/ \E c \in SConns : StatusInitial(c)
  \/ \E c \in SConns : StatusSubscribed(c)
  \/ \E c \in SConns : StatusSetupFails(c)
  \/ \E c \in SConns : StatusFinishes(c)
  \/ \E c \in SConns : StatusClientClose(c)
  \/ \E c \in SConns : StatusTick(c)
  \/ \E c \in SConns : StatusTickResume(c)
  \/ \E c \in SConns : StatusEvent(c, 1)
  \/ \E c \in SConns : StatusEventResume(c)
  \/ \E c \in SConns : StatusEventsError(c)
SpecStatusErrFair ==
  /\ InitS /\ [][NextSE]_vars
  /\ \A c \in SConns : WF_vars(StatusInitial(c))
  /\ \A c \in SConns : WF_vars(StatusSubscribed(c) \/ StatusSetupFails(c))
  /\ \A c \in SConns : SF_vars(StatusTick(c))
  /\ \A c \in SConns : WF_vars(StatusTickResume(c))
  /\ \A c \in SConns : WF_vars(StatusEventResume(c))

\* A registry of push connections under every close trigger and broadcast.
InitPu == PushInit /\ FramerIdle /\ LinksIdle /\ StatusIdle /\ LogsIdle /\ SnapshotIdle /\ PipelineIdle /\ RoutesIdle /\ AuthIdle
NextPu ==
  \/ \E c \in PConns : PushCreate(c)
  \/ \E c \in PConns : PushDestroy(c)
  \/ \E c \in PConns : PushCloseEvent(c)
  \/ \E c \in PConns : PushErrorEvent(c)
  \/ \E c \in PConns : PushClose(c)
  \/ \E c \in PConns, fail \in 0..1 : PushSendData(c, fail)
  \/ \E c \in PConns, fail \in FailAt : PushSendEvent(c, fail)
  \/ \E c \in PConns, fail \in FailAt : PushHeartbeat(c, fail)
  \/ \E f \in [PConns -> FailAt] : Broadcast(f)
  \/ \E f \in [PConns -> 0..1] : BroadcastData(f)
  \/ GetActiveConnections
  \/ CloseAll
SpecPush == InitPu /\ [][NextPu]_vars

\* Pipeline start and stop requests, two of them at a time, over containers
\* that also start and stop on their own.
InitPl == PipelineInit /\ FramerIdle /\ LinksIdle /\ StatusIdle /\ LogsIdle /\ SnapshotIdle /\ PushIdle /\ RoutesIdle /\ AuthIdle
NextPl ==
  \/ \E n \in ContainerNames : ContainerFlips(n)
  \/ \E r \in Reqs, named \in RequestNames : PipelineStart(r, named)
  \/ \E r \in Reqs, named \in RequestNames : PipelineStop(r, named)
  \/ \E r \in Reqs, inspectOk \in BOOLEAN, actsNow \in BOOLEAN :
       PipelineStartResume(r, inspectOk, actsNow)
  \/ \E r \in Reqs, startOk \in BOOLEAN : PipelineStartAnswered(r, startOk)
  \/ \E r \in Reqs, inspectOk \in BOOLEAN, actsNow \in BOOLEAN :
       PipelineStopResume(r, inspectOk, actsNow)
  \/ \E r \in Reqs, stopOk \in BOOLEAN : PipelineStopAnswered(r, stopOk)
SpecPipeline == InitPl /\ [][NextPl]_vars

\* The routes of the link store that write, one request at a time, with the
\* steps of the FileService call a valid request makes.
InitR == RouteLinksInit /\ RoutesInit /\ FramerIdle /\ StatusIdle /\ LogsIdle /\ SnapshotIdle /\ PushIdle /\ PipelineIdle /\ AuthIdle
NextR ==
  \/ \E body \in UrlValues : PostLink(1, body)
  \/ \E body \in BulkBodies : PostBulk(1, body)
  \/ \E id \in RouteIds : DeleteLink(1, id)
  \/ ReadLinks(1)
  \/ ReadCurrent(1)
  \/ ReadCurrentFails(1)
  \/ OpenTemp(1)
  \/ WriteChunk(1)
  \/ CloseTemp(1)
  \/ WriteFileFails(1)
  \/ Rename(1)
  \/ RenameFails(1)
  \/ Unlink(1)
  \/ UnlinkFails(1)
  \/ Return(1)
SpecRoutes == InitR /\ [][NextR]_vars

\* The same connections with Node's event loop doing its part: a response
\* that was ended finishes, and a transport that is gone emits 'close'.
Finishes(c) == PushDestroy(c) /\ pconn[c].ended > 0
SpecPushFair ==
  /\ InitPu /\ [][NextPu]_vars
  /\ \A c \in PConns : WF_vars(Finishes(c)) /\ WF_vars(PushCloseEvent(c))

\* Requests under /api with any Authorization header, for each way the
\* token can be configured.
InitA == AuthInit /\ FramerIdle /\ LinksIdle /\ StatusIdle /\ LogsIdle /\ SnapshotIdle /\ PushIdle /\ PipelineIdle /\ RoutesIdle
NextA == \E path \in Paths, header \in Headers : ApiRequest(path, header)
SpecAuth == InitA /\ [][NextA]_vars

(***************************************************************************)
(* Claims                                                                  *)
(***************************************************************************)

\* C1: feeding the frames in any partition into chunks emits the same
\* ordered entries (line, level, and the timestamp a line carries) as
\* feeding the bytes delivered so far as one single chunk.
C1_BoundaryIndependence ==
  emitted = processLogData(<<>>, SubSeq(stream, 1, fed)).out

\* Witness: a chunk boundary inside the second frame: the first frame's
\* entries (one with a timestamp of its own) are out, part of the next frame
\* is retained, more bytes are to come.
C1_Witness ==
  /\ fed < Len(stream)
  /\ buffer # <<>>
  /\ Len(emitted) >= 1
  /\ \E i \in 1..Len(emitted) : emitted[i].ts # NowTs

\* The non-blank lines of the artifact, as they are stored.
storedLines(file) == SelectSeq(split(file.data), LAMBDA line : Len(line) > 0)

NoRepeat(seq) == \A i, j \in 1..Len(seq) : seq[i] = seq[j] => i = j

\* The distinct elements of urls that are not in stored, in order of first
\* occurrence.
RECURSIVE distinctNew(_, _)
distinctNew(urls, stored) ==
  IF urls = <<>> THEN <<>>
  ELSE IF hasUrl(stored, Head(urls)) THEN distinctNew(Tail(urls), stored)
  ELSE <<Head(urls)>> \o distinctNew(Tail(urls), Append(stored, Head(urls)))

\* C4: from an artifact with no repeated URL, after any sequence of add,
\* addBulk and remove, no URL string is on two lines of the artifact.
C4_Uniqueness == NoRepeat(storedLines(files.links))

\* C5: with a single writer, at every step of a mutation and after a crash
\* at any step, the artifact is exactly the content it had when the
\* mutation began or exactly the complete content the mutation writes.
C5_AtomicReplace ==
  mut[1].called =>
    \/ files.links = mut[1].pre
    \/ mut[1].hasPost /\ files.links = mut[1].post

\* Witness: the process died while the temporary file held a proper, non
\* empty part of the new content; the artifact is the old content, which
\* differs from the new one.
C5_Witness ==
  /\ mut[1].crashed
  /\ mut[1].hasPost
  /\ proc[1].pc = "idle"
  /\ files.tmp.exists
  /\ files.tmp.data # <<>>
  /\ files.tmp.data # mut[1].post.data
  /\ files.links = mut[1].pre
  /\ mut[1].pre # mut[1].post

\* C6: with two mutations interleaving at their suspension points, the
\* artifact always is a complete content: the one a mutation found when it
\* began or the one a mutation decided to write.
C6_SafeConcurrentAccess ==
  \/ \A q \in Procs : ~mut[q].called
  \/ \E p \in Procs :
       /\ mut[p].called
       /\ \/ files.links = mut[p].pre
          \/ mut[p].hasPost /\ files.links = mut[p].post

\* C9: add(u) twice in a row returns the same id both times, the second
\* call writes nothing, and the list grows by at most one over the two calls.
C9_IdempotentAdd ==
  \A p \in Procs :
    ( /\ proc[p].pc = "done"
      /\ proc[p].op.kind = "add"
      /\ prev.op = proc[p].op
      /\ prev.ret.kind = "id"
      /\ proc[p].ret.kind = "id" )
    => /\ proc[p].ret.id = prev.ret.id
       /\ ~proc[p].wrote
       /\ Len(readLinks(files.links)) <= prev.nBefore + 1

\* C10: addBulk(urls) returns the number of distinct input URLs not stored
\* before, and the list afterwards is the previous list followed by those
\* URLs, each once.
C10_BulkSetDifference ==
  \A p \in Procs :
    ( /\ proc[p].pc = "done"
      /\ proc[p].op.kind = "addBulk"
      /\ proc[p].ret.kind = "count" )
    => /\ proc[p].ret.n = Len(distinctNew(proc[p].op.urls, proc[p].existingLinks))
       /\ readLinks(files.links)
            = proc[p].existingLinks \o distinctNew(proc[p].op.urls, proc[p].existingLinks)
(***************************************************************************)
(* Status stream claims                                                    *)
(***************************************************************************)
IsData(f) == f.type = "data"

\* The snapshots written to a connection, in order.
snapshots(k) == SelectSeq(k.res, IsData)

\* The last snapshot written to a connection, NullStatus before the first.
lastPushed(k) ==
  IF snapshots(k) = <<>> THEN NullStatus
  ELSE snapshots(k)[Len(snapshots(k))].data

\* This step resumes the handler of c that was awaiting getCurrentStatus().
Resumes(c) ==
  \/ sconn[c].tick.active /\ ~sconn'[c].tick.active
  \/ sconn[c].ev.active /\ sconn'[c].ev # sconn[c].ev

\* The snapshot that handler had recomputed.
Recomputed(c) ==
  IF sconn[c].tick.active THEN sconn[c].tick.status ELSE sconn[c].ev.status

\* This step issues a getCurrentStatus() call for connection c.
StartsRecomputation(c) ==
  \/ sconn'[c].tick.active /\ ~sconn[c].tick.active
  \/ sconn'[c].ev.active /\ sconn'[c].ev # sconn[c].ev

\* The fallback timer is cleared and no event subscription is live.
Released(k) == ~k.fallback /\ k.events # "live"

\* C2: whether a recomputed snapshot is pushed to an open connection depends
\* only on the last snapshot pushed to that connection: it is pushed exactly
\* when it differs from it, whatever was pushed to other connections.
C2_PerConnectionDetection ==
  [][\A c \in SConns :
       (Resumes(c) /\ ~isClosed_(sconn[c])) =>
         IF Recomputed(c) # lastPushed(sconn[c])
         THEN sconn'[c].res = Append(sconn[c].res, DataFrame(Recomputed(c)))
         ELSE sconn'[c].res = sconn[c].res]_vars

\* C3: no snapshot pushed to a connection equals the snapshot pushed to
\* that connection immediately before it.
C3_ChangeSuppression ==
  \A c \in SConns :
    \A i \in 1..(Len(snapshots(sconn[c])) - 1) :
      snapshots(sconn[c])[i] # snapshots(sconn[c])[i + 1]

\* Release of a closed status connection: a close of an established
\* connection clears the timer and destroys the subscription at once; a
\* connection closed during setup has them released by the first fallback
\* tick that finds it closed; once released an established connection stays
\* released.
ReleasedByNextTick ==
  \A c \in SConns :
    isClosed_(sconn[c]) =>
      /\ sconn[c].hpc # "est" => Released(sconn[c])
      /\ sconn[c].tickedClosed => Released(sconn[c])

ReleaseStep ==
  \A c \in SConns :
    /\ (sconn[c].hpc = "est" /\ ~isClosed_(sconn[c]) /\ isClosed_(sconn'[c]))
         => Released(sconn'[c])
    /\ (sconn[c].hpc = "est" /\ isClosed_(sconn[c]) /\ Released(sconn[c]))
         => Released(sconn'[c])

\* C8 as stated: released at the close or by the next fallback tick, and no
\* recomputation for the connection is started after the release.
C8_NoRecomputationAfterRelease ==
  /\ []ReleasedByNextTick
  /\ [][ReleaseStep]_vars
  /\ [][\A c \in SConns :
          (isClosed_(sconn[c]) /\ Released(sconn[c])) => ~StartsRecomputation(c)]_vars

\* C8, amended: released at the close or by the next fallback tick; after
\* the release no tick and no event chunk invokes a handler for the
\* connection, and a handler already awaiting at that time (a tick, or the
\* remaining event lines of a delivered chunk) finishes its recomputations
\* without writing anything to the connection.
C8_ReleaseAndQuiescence ==
  /\ []ReleasedByNextTick
  /\ [][ReleaseStep]_vars
  /\ [][\A c \in SConns :
          /\ isClosed_(sconn[c]) => sconn'[c].res = sconn[c].res
          /\ (isClosed_(sconn[c]) /\ Released(sconn[c])) =>
               /\ ~sconn[c].tick.active => ~sconn'[c].tick.active
               /\ ~sconn[c].ev.active => ~sconn'[c].ev.active]_vars

\* A connection closed during setup whose timer and subscription were
\* released by a fallback tick while an event chunk was still being handled.
C8_Witness ==
  \E c \in SConns :
    /\ sconn[c].hpc = "est"
    /\ sconn[c].tickedClosed
    /\ Released(sconn[c])
    /\ sconn[c].ev.active /\ sconn[c].ev.left > 1

(***************************************************************************)
(* Log stream claims                                                       *)
(***************************************************************************)
\* C7: whenever a log connection is closed, eventually its 30 s timer is
\* stopped and its upstream log stream is no longer alive.
C7_LogStreamRelease ==
  \A c \in LConns :
    isClosed_(lconn[c]) ~> (~lconn[c].routeTimer /\ lconn[c].logStream # "live")

(***************************************************************************)
(* Link store claims, continued                                            *)
(***************************************************************************)
\* The id is the hash of a URL that list() returns for the artifact.
knownId(file, id) ==
  \E i \in 1..Len(readLinks(file)) : generateId(readLinks(file)[i]) = id

\* C11: remove(id) with an id that is the hash of no stored URL never opens
\* the temporary file, leaves the artifact exactly as it was, returns false
\* and is answered 404 NOT_FOUND.
C11_RemoveUnknown ==
  ( /\ proc[1].op.kind = "remove"
    /\ ~knownId(mut[1].pre, proc[1].op.id) )
  => /\ ~proc[1].wrote
     /\ files.links = mut[1].pre
     /\ proc[1].pc \in {"readLinks", "done"}
     /\ proc[1].pc = "done" =>
          /\ proc[1].ret = RetBool(FALSE)
          /\ deleteResponse(digest(proc[1].op.id), proc[1].ret) = [status |-> 404, code |-> "NOT_FOUND"]

\* Witness: remove of the hash of a URL that is not stored, on a store that
\* holds another URL, has returned.
C11_Witness ==
  /\ proc[1].pc = "done"
  /\ proc[1].op.kind = "remove"
  /\ proc[1].op.id = generateId(UrlB)
  /\ readLinks(mut[1].pre) = <<UrlA>>
  /\ proc[1].ret = RetBool(FALSE)

\* The list with every entry whose id is `id` left out.
without(links, id) == SelectSeq(links, LAMBDA u : generateId(u) # id)

\* remove(id) of a listed id, written without failure, returns true, is
\* answered 200 and leaves the other URLs in their order.
RemoveStored ==
  ( /\ proc[1].pc = "done"
    /\ proc[1].op.kind = "remove"
    /\ proc[1].ret.kind # "error"
    /\ knownId(mut[1].pre, proc[1].op.id) )
  => /\ proc[1].ret = RetBool(TRUE)
     /\ deleteResponse(digest(proc[1].op.id), proc[1].ret).status = 200
     /\ readLinks(files.links) = without(readLinks(mut[1].pre), proc[1].op.id)

\* add(u) on a store without u, then remove of the id add returned, gives
\* back the list there was before the add.
AddThenRemove ==
  ( /\ proc[1].pc = "done"
    /\ proc[1].op.kind = "remove"
    /\ proc[1].ret.kind # "error"
    /\ prev.op.kind = "add"
    /\ prev.ret.kind = "id"
    /\ ~hasUrl(prev.before, prev.op.url)
    /\ proc[1].op.id = prev.ret.id )
  => /\ proc[1].ret = RetBool(TRUE)
     /\ readLinks(files.links) = prev.before

\* C12: remove of a stored link returns true and omits exactly that link,
\* and add(u) then remove(hash(u)) restores the previous list.
C12_RemoveStored == RemoveStored /\ AddThenRemove

\* C13: add(u) returns hash(u), stored before or not, and afterwards list()
\* has an entry whose url is exactly u and whose id is the id returned.
C13_IdConsistency ==
  ( /\ proc[1].pc = "done"
    /\ proc[1].op.kind = "add"
    /\ proc[1].ret.kind = "id" )
  => /\ proc[1].ret.id = generateId(proc[1].op.url)
     /\ \E i \in 1..Len(readLinks(files.links)) :
          /\ readLinks(files.links)[i] = proc[1].op.url
          /\ generateId(readLinks(files.links)[i]) = proc[1].ret.id

\* C14 as stated: after a failed write or rename the operation reports an
\* error, the temporary file does not exist and the artifact is as it was.
C14_FailureLeavesNoTrace ==
  ( /\ proc[1].pc = "done"
    /\ proc[1].ret = RetError )
  => /\ ~files.tmp.exists
     /\ files.links = mut[1].pre

\* C14, amended: a mutation whose write or rename fails ends with an error
\* and never changes the artifact; the temporary file is gone afterwards
\* whenever the one attempt to unlink it went through.
C14_FailureLeavesArtifact ==
  /\ proc[1].pc = "catch" => files.links = mut[1].pre
  /\ ( /\ proc[1].pc = "done"
       /\ proc[1].ret.kind \notin {"id", "count", "bool"} )
     => /\ proc[1].ret = RetError
        /\ files.links = mut[1].pre
        /\ proc[1].unlinked => ~files.tmp.exists

\* Witness: the rename of a completely written temporary file failed, the
\* file was unlinked and the call ended with an error.
C14_Witness ==
  /\ proc[1].pc = "done"
  /\ proc[1].ret = RetError
  /\ proc[1].unlinked
  /\ proc[1].off = Len(proc[1].newContent)
  /\ proc[1].off > 0
  /\ mut[1].pre.exists
  /\ mut[1].post # mut[1].pre

(***************************************************************************)
(* Log framer claims, continued                                            *)
(* The frames the engine wrote are recovered from the stream by matching   *)
(* the frames it can write, not by reading the length field.               *)
(***************************************************************************)
IsPrefix(f, s) == Len(f) <= Len(s) /\ SubSeq(s, 1, Len(f)) = f

\* The frames of a stream, as pairs <<tag, payload>>.
RECURSIVE framesIn(_)
framesIn(s) ==
  IF s = <<>> THEN <<>>
  ELSE LET tp == CHOOSE x \in Tags \X Payloads : IsPrefix(Frame(x[1], x[2]), s)
       IN <<tp>> \o framesIn(SubSeq(s, Len(Frame(tp[1], tp[2])) + 1, Len(s)))

\* The leading frames that lie completely within the first n bytes.
RECURSIVE wholeFrames(_, _)
wholeFrames(fs, n) ==
  IF fs = <<>> THEN <<>>
  ELSE LET len == 8 + Len(Head(fs)[2])
       IN IF len > n THEN <<>> ELSE <<Head(fs)>> \o wholeFrames(Tail(fs), n - len)

RECURSIVE consumed(_)
consumed(fs) == IF fs = <<>> THEN 0 ELSE 8 + Len(Head(fs)[2]) + consumed(Tail(fs))

\* The frames completely fed so far.
fedFrames == wholeFrames(framesIn(stream), fed)

\* C15: the framer holds back exactly the bytes fed after the last complete
\* frame, unchanged, and has emitted the records of the complete frames
\* once each and no record of a frame still incomplete.
C15_PartialFrameRetention ==
  /\ buffer = SubSeq(stream, consumed(fedFrames) + 1, fed)
  /\ emitted = Flatten([i \in 1..Len(fedFrames) |->
                          frameEntries(fedFrames[i][1], fedFrames[i][2])])

\* Witness: after a first frame with a record, the buffer holds the header
\* of the next frame and a proper part of its one-line payload.
C15_Witness ==
  /\ Len(fedFrames) = 1
  /\ Len(emitted) >= 1
  /\ Len(framesIn(stream)) = 2
  /\ framesIn(stream)[2][2] = <<97, LF>>
  /\ Len(buffer) = 9

\* The lines of a payload that are not empty.
nonEmptyLines(payload) == SelectSeq(split(payload), LAMBDA line : Len(line) > 0)

\* The lines of a payload that hold something other than white space.
nonBlank(payload) == SelectSeq(split(payload), LAMBDA line : trim(line) # <<>>)

levelOf(tag) == IF tag = 1 THEN "info" ELSE "error"

\* The framer has consumed exactly the complete frames, 8 + length bytes each.
ConsumedWholeFrames == Len(buffer) = fed - consumed(fedFrames)

\* C16 as stated: the records emitted are, frame after frame, one per non
\* empty line of the payload in payload order, level info for tag 1 and
\* error for any other tag.
C16_RecordPerNonEmptyLine ==
  /\ ConsumedWholeFrames
  /\ emitted = Flatten([i \in 1..Len(fedFrames) |->
       LET lines == nonEmptyLines(fedFrames[i][2])
       IN [j \in 1..Len(lines) |-> logEntry(lines[j], levelOf(fedFrames[i][1]))]])

\* C16, amended: one record per line that holds something other than white
\* space; a line of blanks is dropped like an empty one.
C16_RecordPerNonBlankLine ==
  /\ ConsumedWholeFrames
  /\ emitted = Flatten([i \in 1..Len(fedFrames) |->
       LET lines == nonBlank(fedFrames[i][2])
       IN [j \in 1..Len(lines) |-> logEntry(lines[j], levelOf(fedFrames[i][1]))]])

\* Witness: a stderr frame with two lines around a line of blanks, then an
\* empty frame, both consumed: two error records.
C16_Witness ==
  /\ fed = Len(stream)
  /\ framesIn(stream) = << <<2, <<97, LF, SP, LF, 98>> >>, <<1, <<>> >> >>
  /\ Len(emitted) = 2
  /\ emitted[2].level = "error"
  /\ buffer = <<>>

(***************************************************************************)
(* Status projection claims                                                *)
(***************************************************************************)
\* The table of the vpn column.
vpnExpected(o) ==
  CASE ~o.reachable -> "unknown"
    [] o.reachable /\ ~o.Running -> "down"
    [] o.reachable /\ o.Running /\ o.Health \in {"healthy", ""} -> "up"
    [] OTHER -> "down"

\* The table of the tor column.
torExpected(o) ==
  CASE ~o.reachable -> "unknown"
    [] o.reachable /\ o.Running -> "up"
    [] OTHER -> "down"

\* C17: for every vpn and tor observation the snapshot's vpn and tor fields
\* are the ones of the table.
C17_VpnTorTable ==
  answer.kind = "json" =>
    /\ answer.status.vpn = vpnExpected(probe.vpn)
    /\ answer.status.tor = torExpected(probe.tor)

\* Witness: vpn running but unhealthy and tor stopped, both reported down.
C17_Witness ==
  /\ answer.kind = "json"
  /\ probe.vpn.reachable /\ probe.vpn.Running /\ probe.vpn.Health = "unhealthy"
  /\ probe.tor.reachable /\ ~probe.tor.Running
  /\ answer.status.vpn = "down"
  /\ answer.status.tor = "down"

\* The table of the lastRunAt column.
lastRunAtExpected(o) ==
  CASE o.reachable /\ o.Running /\ o.StartedAt # "" -> o.StartedAt
    [] o.reachable /\ ~o.Running /\ o.FinishedAt # "" -> o.FinishedAt
    [] OTHER -> Undefined

\* C18: lastRunAt is startedAt for a running pipeline that has one,
\* finishedAt for a pipeline not running that has one, absent otherwise.
C18_LastRunAt ==
  answer.kind = "json" => answer.status.lastRunAt = lastRunAtExpected(probe.pipeline)

\* The same for every observation but a running pipeline without startedAt.
C18_ExceptRunningWithoutStart ==
  ( /\ answer.kind = "json"
    /\ ~(probe.pipeline.reachable /\ probe.pipeline.Running
         /\ probe.pipeline.StartedAt = "") )
  => answer.status.lastRunAt = lastRunAtExpected(probe.pipeline)

\* The snapshot there would be had every inspect of the probe gone through.
asIfNoFailure ==
  getCurrentStatusEnv([probe EXCEPT !.pipeline.reachable = TRUE,
                                    !.vpn.reachable = TRUE,
                                    !.tor.reachable = TRUE], TRUE)

\* C19: whichever inspects fail, a snapshot is answered in which every
\* container whose inspect failed is unknown and every other field is what
\* it would be without any failure.
C19_FailureIsolation ==
  answer.kind = "json" =>
    /\ answer.status.pipeline \in {"running", "stopped", "unknown"}
    /\ answer.status.vpn \in {"up", "down", "unknown"}
    /\ answer.status.tor \in {"up", "down", "unknown"}
    /\ IF probe.pipeline.reachable
       THEN /\ answer.status.pipeline = asIfNoFailure.pipeline
            /\ answer.status.lastRunAt = asIfNoFailure.lastRunAt
       ELSE answer.status.pipeline = "unknown"
    /\ IF probe.vpn.reachable
       THEN answer.status.vpn = asIfNoFailure.vpn
       ELSE answer.status.vpn = "unknown"
    /\ IF probe.tor.reachable
       THEN answer.status.tor = asIfNoFailure.tor
       ELSE answer.status.tor = "unknown"
    /\ IF probe.envOk
       THEN answer.status.cleanJobs = asIfNoFailure.cleanJobs
       ELSE answer.status.cleanJobs = Undefined

\* Witness: the inspects of the pipeline and tor containers and the
\* environment read fail, the vpn container is running and healthy.
C19_Witness ==
  /\ answer.kind = "json"
  /\ ~probe.pipeline.reachable /\ ~probe.tor.reachable /\ ~probe.envOk
  /\ probe.tor.Running /\ probe.pipeline.Running
  /\ probe.vpn.reachable /\ probe.vpn.Running /\ probe.vpn.Health = "healthy"
  /\ answer.status.pipeline = "unknown"
  /\ answer.status.tor = "unknown"
  /\ answer.status.vpn = "up"

\* C20: once the engine state has changed for the last time, every
\* established connection that stays open is eventually pushed the snapshot
\* of that state.
C20_EventualDelivery ==
  \A c \in SConns :
    (changes = MaxChanges /\ sconn[c].hpc = "est")
      ~> (isClosed_(sconn[c]) \/ lastPushed(sconn[c]) = getCurrentStatus(engine))

\* C21: on every status connection the first frame written is the retry
\* instruction and the frame right after it is the initial status snapshot:
\* no ping, error or other frame comes in between.
C21_FirstFrames ==
  \A c \in SConns :
    LET r == sconn[c].res
    IN /\ (Len(r) >= 1 => r[1] = RetryFrame)
       /\ (Len(r) >= 2 => r[2].type = "data")

\* What holds instead: the retry instruction is first, and only pings can
\* precede the initial snapshot.
C21_FirstPayloadIsSnapshot ==
  \A c \in SConns :
    LET r == sconn[c].res
        rest == SelectSeq(r, LAMBDA f : f.type \notin {"retry", "ping"})
    IN /\ (Len(r) >= 1 => r[1] = RetryFrame)
       /\ (rest # <<>> => rest[1].type = "data")

\* The subscription error of an open connection: the error event is written,
\* nothing is closed and no timer is cleared.
ErrorKeepsStreamOpen(c) ==
  (StatusEventsError(c) /\ ~isClosed_(sconn[c]))
    => /\ sconn'[c].res = Append(sconn[c].res, ErrorFrame)
       /\ ~isClosed_(sconn'[c])
       /\ sconn'[c].fallback /\ sconn'[c].heartbeat

\* C22: when the event subscription of an established status connection
\* emits an error, the connection is sent an error event and stays open with
\* its fallback tick running, and a state change after that still reaches
\* the connection through the fallback tick.
C22_EventSourceFailure ==
  /\ [][\A c \in SConns : ErrorKeepsStreamOpen(c)]_vars
  /\ \A c \in SConns :
       (sconn[c].events = "errored" /\ changes = MaxChanges)
         ~> (isClosed_(sconn[c]) \/ lastPushed(sconn[c]) = getCurrentStatus(engine))

\* The part that holds with any number of connections.
C22_ErrorKeepsStreamOpen == [][\A c \in SConns : ErrorKeepsStreamOpen(c)]_vars

(***************************************************************************)
(* Stream error paths                                                      *)
(***************************************************************************)
\* A stream that cannot be established: the error event is written to the
\* open connection, which is closed in the same step with its heartbeat
\* stopped, so that the error event is the last frame it carries.
FailedSetup(old, new) ==
  /\ new.res = Append(old.res, ErrorFrame)
  /\ new.isClosed /\ ~new.heartbeat

\* An error after establishment: the error event is written and the
\* connection is as open as before, its timers running.
ReportedOnly(old, new) ==
  /\ new.res = Append(old.res, ErrorFrame)
  /\ ~new.isClosed /\ new.heartbeat

C23_Step ==
  \A c \in StreamOne :
    /\ (StatusSetupFails(c) /\ ~sconn[c].isClosed) => FailedSetup(sconn[c], sconn'[c])
    /\ (LogsRejected(c) /\ ~lconn[c].isClosed) => FailedSetup(lconn[c], lconn'[c])
    /\ ((StatusEventsError(c) \/ StatusEventMalformed(c)) /\ ~sconn[c].isClosed)
         => (ReportedOnly(sconn[c], sconn'[c]) /\ sconn'[c].fallback = sconn[c].fallback)
    /\ (LogsError(c) /\ ~lconn[c].isClosed)
         => (ReportedOnly(lconn[c], lconn'[c]) /\ lconn'[c].routeTimer = lconn[c].routeTimer)
    /\ sconn[c].hpc = "failed" => sconn'[c] = endFinishes(sconn[c]) \/ sconn'[c] = sconn[c]
    /\ lconn[c].hpc = "failed" => lconn'[c] = endFinishes(lconn[c]) \/ lconn'[c] = lconn[c]

C23_NothingLeft ==
  \A c \in StreamOne :
    /\ sconn[c].hpc = "failed"
         => (sconn[c].isClosed /\ ~sconn[c].heartbeat
             /\ ~sconn[c].fallback /\ sconn[c].events = "none")
    /\ lconn[c].hpc = "failed"
         => (lconn[c].isClosed /\ ~lconn[c].heartbeat
             /\ ~lconn[c].routeTimer /\ lconn[c].logStream = "none")

\* C23: a stream that cannot be established (getDockerEvents or
\* getContainerLogs throws) gets an error event and is then closed, with no
\* route timer and no upstream subscription for it from then on; an error
\* raised after establishment is reported as an error event and the
\* connection is not closed.
C23_SetupFailureCloses == []C23_NothingLeft /\ [][C23_Step]_vars

\* Witness: the log stream could not be established (error event last, then
\* closed) while the status stream, established, has reported an errored
\* event subscription and is still open.
C23_Witness ==
  /\ lconn[1].hpc = "failed" /\ lconn[1].isClosed
  /\ lconn[1].res = <<RetryFrame, ErrorFrame>>
  /\ sconn[1].hpc = "est" /\ sconn[1].events = "errored"
  /\ ~isClosed_(sconn[1]) /\ sconn[1].fallback
  /\ framesOf(sconn[1], "error") = 1

(***************************************************************************)
(* Push connection claims                                                  *)
(***************************************************************************)
\* The heartbeat interval of a connection has been cleared once if the
\* connection is closed and never otherwise, it runs while the connection
\* is not closed, and res.end() has been called at most once.
ClosedOnce(k) ==
  /\ k.cleared = (IF k.isClosed THEN 1 ELSE 0)
  /\ k.ended <= 1
  /\ k.heartbeat = (k.created /\ ~k.isClosed)

\* What close() sets, and what a closed connection writes.
closeEffect(k) == <<k.isClosed, k.heartbeat, k.cleared, k.ended, k.sent, k.torn>>

\* C24: under any interleaving of the close triggers of a connection (res
\* 'close', res 'error', a failing write of sendData/sendEvent, close(),
\* closeAll, the heartbeat firing) its heartbeat timer is cleared exactly
\* once and its transport is ended at most once, and whatever runs on a
\* closed connection, a further close() included, changes nothing of it.
C24_CloseIdempotent ==
  /\ [](\A c \in PConns : ClosedOnce(pconn[c]))
  /\ [][\A c \in PConns :
          pconn[c].isClosed => closeEffect(pconn'[c]) = closeEffect(pconn[c])]_vars

\* Witness: a connection closed by a failing write in the middle of an
\* event, on which res 'error' and then res 'close' have fired after that.
C24_Witness ==
  \E c \in PConns :
    /\ pconn[c].torn /\ pconn[c].errFired /\ pconn[c].closeFired
    /\ pconn[c].cleared = 1 /\ pconn[c].ended = 1

\* C25: a broadcast writes the frame to every connection that is open when
\* it runs and whose write does not fail, whatever happens to the others; a
\* connection whose write fails is closed, and nothing else changes on any
\* other connection.
C25_FanOutIsolation ==
  [][\A f \in [PConns -> FailAt] :
       (Broadcast(f) \/ BroadcastData(f)) =>
         \A c \in PConns :
           IF IsOpen(pconn[c])
           THEN IF f[c] = 0
                THEN /\ pconn'[c].sent = pconn[c].sent + 1
                     /\ IsOpen(pconn'[c])
                ELSE pconn'[c].isClosed /\ pconn'[c].sent = pconn[c].sent
           ELSE pconn'[c] = pconn[c]]_vars

\* Witness: a broadcast has just run over two open connections; the write
\* to the one registered first failed and closed it, the other got the frame.
C25_Witness ==
  /\ fan.ran /\ fan.open = PConns
  /\ fan.failed = {registry[1]}
  /\ Len(registry) = 2
  /\ pconn[registry[1]].isClosed /\ pconn[registry[1]].sent = 0
  /\ ~pconn[registry[2]].isClosed /\ pconn[registry[2]].sent = 1

(***************************************************************************)
(* Pipeline control claims                                                 *)
(***************************************************************************)
\* C26: every start or stop call the pipeline routes issue to the engine
\* targets the configured pipeline container, and no request changes
\* whether the vpn container, the tor container or any other one runs.
C26_AllowList ==
  /\ [](\A call \in calls : call.name = pipelineContainer)
  /\ [][\A r \in Reqs :
          ( \/ \E named \in Named : PipelineStart(r, named) \/ PipelineStop(r, named)
            \/ \E a \in BOOLEAN, b \in BOOLEAN :
                 PipelineStartResume(r, a, b) \/ PipelineStopResume(r, a, b)
            \/ \E a \in BOOLEAN :
                 PipelineStartAnswered(r, a) \/ PipelineStopAnswered(r, a) ) =>
            \A n \in ContainerNames \ {pipelineContainer} : running'[n] = running[n]]_vars

\* Witness: a stop request naming the vpn container was answered ok; the
\* pipeline container was stopped and the vpn container still runs.
C26_Witness ==
  /\ reply.path = "stop" /\ reply.named = gluetunContainer /\ reply.status = 200
  /\ \E call \in calls : call.op = "stop" /\ call.name = pipelineContainer
  /\ ~running[pipelineContainer] /\ running[gluetunContainer]

(***************************************************************************)
(* Link route claims                                                       *)
(***************************************************************************)
\* A value that is no URL of the allow-listed prefix.
notAllowListed(v) == v.kind # "string" \/ ~startsWithMega(v.url)

\* This step answers 400 VALIDATION_ERROR and does not call the link store.
Rejected(route) ==
  /\ linkReply' = [route |-> route, status |-> 400, code |-> "VALIDATION_ERROR"]
  /\ UNCHANGED linkVars

RejectsInvalid ==
  /\ \A body \in UrlValues :
       (PostLink(1, body) /\ notAllowListed(body)) => Rejected("add")
  /\ \A body \in BulkBodies :
       (PostBulk(1, body) /\ \E i \in 1..Len(body.urls) : notAllowListed(body.urls[i]))
         => Rejected("bulk")

\* Every URL the store lists begins with the allow-listed prefix.
OnlyAllowListed ==
  \A i \in 1..Len(readLinks(files.links)) : startsWithMega(readLinks(files.links)[i])

\* C27: a POST /api/links whose url is missing or does not start with
\* https://mega.nz/, and a bulk POST in which some url does not, is answered
\* 400 VALIDATION_ERROR without calling the link store, and no URL outside
\* the allow-listed prefix is ever written to the artifact.
C27_UrlValidation == [][RejectsInvalid]_vars /\ []OnlyAllowListed

\* The first half alone.
C27_RejectsInvalid == [][RejectsInvalid]_vars

(***************************************************************************)
(* Authentication claims                                                   *)
(***************************************************************************)
\* The header is exactly 'Bearer ' followed by the configured token.
exactBearer(header) == header.present /\ header.value = BearerPrefix \o apiToken.value

\* C28: without a configured token every request to a mounted router reaches
\* its handler; with one, a request reaches the handler exactly if its
\* Authorization header is 'Bearer ' followed by the token, and any other
\* request is answered 401 and no handler runs.
C28_BearerAuth ==
  [][\A path \in Mounted, header \in Headers :
       ApiRequest(path, header) =>
         IF ~tokenConfigured(apiToken) \/ exactBearer(header)
         THEN path \in handled' /\ authReply'.status = 200
         ELSE authReply'.status = 401 /\ handled' = handled]_vars

\* Witness: under a configured token a request with the right header has
\* been handled and the last one, with another token, was answered 401.
C28_Witness ==
  /\ tokenConfigured(apiToken)
  /\ "pipeline" \in handled /\ "links" \notin handled
  /\ authReply.path = "links" /\ authReply.status = 401
  /\ authReply.code = "INVALID_TOKEN"

\* Listing a store whose artifact is missing: the empty list, and the
\* directory left as it was; a read that fails otherwise gives an error.
ListOfMissing ==
  \A fault \in ReadFaults :
    ListLinks(2, fault) =>
      /\ (fault = "none" /\ ~files.links.exists) =>
           (prev'.ret = RetList(<<>>) /\ files' = files)
      /\ fault # "none" => prev'.ret = RetError

\* An add that found the artifact missing and succeeded leaves an artifact
\* that holds its URL and a line break.
AddCreates ==
  (/\ proc[1].pc = "done" /\ proc[1].op.kind = "add"
   /\ proc[1].ret.kind = "id" /\ proc[1].ret.b
   /\ ~mut[1].pre.exists)
    => files.links = File(proc[1].op.url \o <<LF>>)

\* C29: on a missing artifact list() returns the empty list without raising
\* and without creating the artifact, a following add(u) creates it with
\* exactly u, and any other read failure raises instead of returning an
\* empty list.
C29_MissingIsEmpty == [][ListOfMissing]_vars /\ []AddCreates

\* Witness: the artifact was missing, list() answered the empty list, and
\* the add(u) that followed has created the artifact with u.
C29_Witness ==
  /\ prev.op = ListOp /\ prev.ret = RetList(<<>>)
  /\ proc[1].pc = "done" /\ proc[1].op.kind = "add" /\ proc[1].ret.b
  /\ ~mut[1].pre.exists
  /\ files.links = File(UrlA \o <<LF>>)

\* Call p has rewritten the artifact and reported success.
Rewrote(p) ==
  /\ proc[p].pc = "done"
  /\ proc[p].ret.kind # "error"
  /\ mut[p].hasPost

\* The URLs a store with this artifact lists.
listed(file, url) == hasUrl(readLinks(file), url)

\* C30: two concurrent mutations can both report success while the artifact
\* holds the effect of only the later rewrite.  Whenever both calls have
\* rewritten the artifact and reported success, the artifact is the whole
\* content one of them wrote, with nothing merged in from the other.
C30_LaterRewriteWins ==
  (\A p \in Procs : Rewrote(p))
    => \E p \in Procs : files.links = File(proc[p].newContent)

\* Witness: add(a) and add(b) on a store that listed neither have both
\* answered "new", and the artifact lists b but not a.
C30_LostUpdate ==
  /\ proc[1].op.kind = "add" /\ proc[1].op.url = UrlA
  /\ proc[2].op.kind = "add" /\ proc[2].op.url = UrlB
  /\ mut[1].pre = mut[2].pre
  /\ ~listed(mut[1].pre, UrlA) /\ ~listed(mut[1].pre, UrlB)
  /\ \A p \in Procs : Rewrote(p) /\ proc[p].ret = RetId(generateId(proc[p].op.url), TRUE)
  /\ files.links = File(proc[2].newContent)
  /\ listed(files.links, UrlB) /\ ~listed(files.links, UrlA)

(***************************************************************************)
(* Push connection claims, continued                                       *)
(***************************************************************************)

\* The transport output of a closed connection is left as it is.
Silent(old, new) == old.isClosed => new.res = old.res

\* C31: once a connection is closed no ping, data, named-event or error
\* frame is written to its transport, whichever of its heartbeat, the
\* status fallback tick, an engine event handler or a log data handler runs
\* afterwards.
C31_NoFrameAfterClose ==
  [][\A c \in StreamOne : /\ Silent(sconn[c], sconn'[c])
                          /\ Silent(lconn[c], lconn'[c])]_vars

\* Witness: a status connection that closed after its initial snapshot; a
\* recomputation that resumed afterwards found a different snapshot, stored
\* it, and wrote nothing.
C31_Witness ==
  /\ sconn[1].isClosed
  /\ framesOf(sconn[1], "data") = 1
  /\ lastStatus # NullStatus
  /\ \A i \in 1..Len(sconn[1].res) : sconn[1].res[i] # DataFrame(lastStatus)

\* The registered connections that are not closed.
openRegistered == {c \in PConns : IsRegistered(c) /\ ~isClosed_(pconn[c])}

\* getActiveConnections() returns the number of registered connections that
\* are not closed, and leaves exactly those registered.
CountsOpen ==
  /\ getActiveConnections(registry, pconn) = Cardinality(openRegistered)
  /\ GetActiveConnections =>
       /\ Len(registry') = getActiveConnections(registry, pconn)
       /\ \A c \in PConns : IsRegistered(c)' <=> c \in openRegistered

\* Only a closed connection leaves the registry, and no step adds an entry
\* for a connection that is registered already.
RemovesOnlyClosed ==
  \A c \in PConns :
    /\ (IsRegistered(c) /\ ~IsRegistered(c)') => isClosed_(pconn'[c])
    /\ (IsRegistered(c) /\ ~isClosed_(pconn'[c])) => IsRegistered(c)'

\* The registry holds created connections, each once, and none whose 'close'
\* has been emitted.
RegistryWellFormed ==
  /\ \A i, j \in 1..Len(registry) : registry[i] = registry[j] => i = j
  /\ \A c \in PConns : IsRegistered(c) => pconn[c].created /\ ~pconn[c].closeFired

\* C32: getActiveConnections() returns the number of registered connections
\* that are not closed, every closed connection is eventually absent from
\* the registry, and a removal (by the 'close' event, by the cleanup of a
\* broadcast or of getActiveConnections, or by both) never removes another
\* connection.
C32_RegistryTracksOpen ==
  /\ []RegistryWellFormed
  /\ [][CountsOpen /\ RemovesOnlyClosed]_vars
  /\ \A c \in PConns : (pconn[c].isClosed ~> ~IsRegistered(c))

\* Witness: two connections are registered, the one registered first was
\* closed in the middle of an event and its transport has not emitted
\* 'close'; getActiveConnections() returns 1.
C32_Witness ==
  /\ registry = <<1, 2>>
  /\ pconn[1].isClosed /\ pconn[1].torn /\ ~pconn[1].destroyed
  /\ IsOpen(pconn[2])
  /\ getActiveConnections(registry, pconn) = 1

(***************************************************************************)
(* Link store claims, continued                                            *)
(***************************************************************************)
\* The URL is stored: it is a line of the artifact as an add wrote it, or a
\* URL the store lists.
stored(file, url) ==
  \/ listed(file, url)
  \/ file.exists /\ \E i \in 1..Len(split(file.data)) : split(file.data)[i] = url

\* Every URL of the list is stored (an empty list included).
allStored(urls, file) == \A i \in 1..Len(urls) : stored(file, urls[i])

\* The step of addBulkLinks after its readLinks(), on a no-op input.
BulkNoOpStep ==
  (/\ ReadLinks(1) /\ proc[1].op.kind = "addBulk"
   /\ allStored(proc[1].op.urls, files.links))
    => /\ proc'[1].pc = "done" /\ proc'[1].ret = RetCount(0)
       /\ files' = files /\ fdAt' = fdAt

\* An addBulk that has returned 0 has written no temp file and left the
\* artifact as it found it.
BulkNoOpDone ==
  (proc[1].pc = "done" /\ proc[1].op.kind = "addBulk" /\ proc[1].ret = RetCount(0))
    => /\ ~proc[1].wrote /\ ~mut[1].hasPost
       /\ files.links = mut[1].pre
       /\ allStored(proc[1].op.urls, files.links)

\* C33: addBulk with an empty list or a list whose URLs are all stored
\* returns 0 without writing a temp file and without a rename: the artifact
\* is unchanged.
C33_BulkNoOp == [][BulkNoOpStep]_vars /\ []BulkNoOpDone

\* Call 1 has returned without an error: an add its id (new or not), an
\* addBulk its count (0 included), a remove true.
Succeeded ==
  /\ proc[1].pc = "done"
  /\ \/ proc[1].ret.kind \in {"id", "count"}
     \/ proc[1].ret.kind = "bool" /\ proc[1].ret.b

\* What the call found, and what the artifact holds now ('' if missing).
priorData == currentContentOf(mut[1].pre)
artifactData == currentContentOf(files.links)

\* The lines of a content, without the empty piece after a final line break.
linesOf(data) ==
  LET ls == split(data)
  IN IF data = <<>> THEN <<>>
     ELSE IF ls[Len(ls)] = <<>> THEN SubSeq(ls, 1, Len(ls) - 1) ELSE ls

endsWithNewline(data) == data = <<>> \/ data[Len(data)] = LF

noBlankLine(data) == \A i \in 1..Len(linesOf(data)) : trim(linesOf(data)[i]) # <<>>

\* Empty, or URL lines each terminated by a line break.
OnlyUrlLines(data) == endsWithNewline(data) /\ noBlankLine(data)

\* The URLs the call added: the URL of an add that answered "new", the URLs
\* of an addBulk that the store did not list.
addedUrls ==
  IF proc[1].op.kind = "add"
  THEN IF proc[1].ret.b THEN <<proc[1].op.url>> ELSE <<>>
  ELSE SelectSeq(proc[1].op.urls, LAMBDA u : ~listed(mut[1].pre, u))

\* The added URLs are the last lines of the artifact, after the lines that
\* were there, each on a line of its own.
AddedOnOwnLines ==
  proc[1].op.kind \in {"add", "addBulk"} =>
    linesOf(artifactData) = linesOf(priorData) \o addedUrls

\* C34: after every successful add, addBulk or remove from any prior
\* content the artifact is empty or consists of URL lines each ended by a
\* line break, the added URLs on their own lines.
C34_PersistedFormat ==
  Succeeded => OnlyUrlLines(artifactData) /\ AddedOnOwnLines

(***************************************************************************)
(* Status stream claims, continued                                         *)
(***************************************************************************)
\* The snapshots pushed on a connection, in the order they were written.
pushed(k) ==
  LET frames == SelectSeq(k.res, LAMBDA f : f.type = "data")
  IN [i \in 1..Len(frames) |-> frames[i].data]

\* Where the engine has changed once there are two observations: the
\* snapshot of the engine as it is now is the later one, a different
\* snapshot the earlier one.
later(status) == status = getCurrentStatus(engine)

\* A step that pushes a snapshot after the one observed later pushes one
\* that was observed as late.
InObservationOrder(old, new) ==
  (/\ changes = 1
   /\ Len(pushed(new)) = Len(pushed(old)) + 1
   /\ Len(pushed(old)) > 0
   /\ later(pushed(old)[Len(pushed(old))]))
    => later(pushed(new)[Len(pushed(new))])

\* C35: on a status connection whose recomputations overlap at their
\* inspection awaits, a snapshot computed from an earlier inspection of
\* the containers is never pushed after one computed from a later
\* inspection.
C35_ObservationOrder ==
  [][\A c \in StreamOne : InObservationOrder(sconn[c], sconn'[c])]_vars

(***************************************************************************)
(* Pipeline claims, continued                                              *)
(***************************************************************************)
\* What a start or stop request leaves on the engine side.
engineSide == <<running, calls>>

\* Receiving a request and inspecting the container asks nothing of the
\* engine that changes it.
InspectOnly ==
  \A r \in Reqs, named \in Named :
    (PipelineStart(r, named) \/ PipelineStop(r, named)) => engineSide' = engineSide

\* A start request: the engine's start is called only after an inspection
\* that reports the container not running, and then it is called; after an
\* inspection that reports it running the request is answered ok and
\* nothing is asked of the engine, which leaves the container running
\* unless it changed since the inspection.
StartConditional ==
  \A r \in Reqs, inspectOk \in BOOLEAN, actsNow \in BOOLEAN :
    PipelineStartResume(r, inspectOk, actsNow) =>
      /\ engineSide' # engineSide => inspectOk /\ ~inflight[r].Running
      /\ (inspectOk /\ inflight[r].Running) =>
           (reply'.status = 200 /\ engineSide' = engineSide)
      /\ (inspectOk /\ ~inflight[r].Running) =>
           /\ [op |-> "start", name |-> pipelineContainer, t |-> 0] \in calls'
           /\ inflight'[r].call # "none"
      /\ ( /\ inflight'[r] = NoRequest /\ reply'.status = 200
           /\ running[pipelineContainer] = inflight[r].Running )
           => running'[pipelineContainer]

\* The start that is answered was called after an inspection that reported
\* the container not running; the answer calls nothing more; after an ok
\* the container runs, unless it changed since the engine started it.
StartAnswered ==
  \A r \in Reqs, startOk \in BOOLEAN :
    PipelineStartAnswered(r, startOk) =>
      /\ ~inflight[r].Running
      /\ [op |-> "start", name |-> pipelineContainer, t |-> 0] \in calls
      /\ calls' = calls
      /\ (reply'.status = 200 /\ (inflight[r].call = "pending" \/ running[pipelineContainer]))
           => running'[pipelineContainer]

\* A stop request, the same way round, with the 10 s grace.
StopConditional ==
  \A r \in Reqs, inspectOk \in BOOLEAN, actsNow \in BOOLEAN :
    PipelineStopResume(r, inspectOk, actsNow) =>
      /\ engineSide' # engineSide => inspectOk /\ inflight[r].Running
      /\ (inspectOk /\ ~inflight[r].Running) =>
           (reply'.status = 200 /\ engineSide' = engineSide)
      /\ (inspectOk /\ inflight[r].Running) =>
           /\ [op |-> "stop", name |-> pipelineContainer, t |-> 10] \in calls'
           /\ inflight'[r].call # "none"
      /\ ( /\ inflight'[r] = NoRequest /\ reply'.status = 200
           /\ running[pipelineContainer] = inflight[r].Running )
           => ~running'[pipelineContainer]

StopAnswered ==
  \A r \in Reqs, stopOk \in BOOLEAN :
    PipelineStopAnswered(r, stopOk) =>
      /\ inflight[r].Running
      /\ [op |-> "stop", name |-> pipelineContainer, t |-> 10] \in calls
      /\ calls' = calls
      /\ (reply'.status = 200 /\ (inflight[r].call = "pending" \/ ~running[pipelineContainer]))
           => ~running'[pipelineContainer]

\* C36: startContainer calls the engine's start only when inspection
\* reports the container not running and stopContainer calls stop, with
\* the 10-second grace, only when it reports it running; otherwise they
\* succeed without touching the engine, so a start on a running container
\* and a stop on a stopped one answer ok and a start (or stop) repeated
\* with nothing else in between does what one does.
C36_ConditionalStartStop ==
  [][/\ InspectOnly
     /\ StartConditional /\ StartAnswered
     /\ StopConditional /\ StopAnswered]_vars

\* Witness: a start request on the running pipeline container has been
\* answered ok and no engine call was ever made.
C36_Witness ==
  /\ reply.path = "start" /\ reply.status = 200
  /\ running[pipelineContainer]
  /\ calls = {}

(***************************************************************************)
(* Log framer claims, continued                                            *)
(***************************************************************************)
\* The (line text, source) of the records of either decoder; the stream
\* route sends the source as its level.
sentRecords(entries) ==
  [i \in 1..Len(entries) |->
     <<entries[i].line, IF entries[i].level = "error" THEN "stderr" ELSE "stdout">>]

demuxRecords(logs) == [i \in 1..Len(logs) |-> <<logs[i].line, logs[i].source>>]

\* C37: for every buffer, demuxLogs returns for the complete frames at its
\* front the same ordered (line text, source) records that processLogData
\* has emitted once fed the same bytes in any chunking; both leave out a
\* trailing incomplete frame.
C37_DemuxAgrees ==
  LET bytes == SubSeq(stream, 1, fed)
  IN /\ demuxRecords(demuxLogs(bytes)) = sentRecords(emitted)
     /\ demuxLogs(bytes) = demuxLogs(SubSeq(bytes, 1, Len(bytes) - Len(buffer)))

\* Witness: the bytes fed so far are a stdout frame with a timestamped line
\* and part of a second frame; both decoders give that one record.
C37_Witness ==
  /\ fed < Len(stream) /\ Len(buffer) > 8
  /\ Len(emitted) = 1 /\ emitted[1].ts # NowTs /\ emitted[1].level = "info"
  /\ Len(demuxLogs(SubSeq(stream, 1, fed))) = 1

====
